---------------------------- MODULE Spec2Model ----------------------------
(***************************************************************************)
(* A model of three parts of the binius repository:                        *)
(*   - the Tensor polynomial commitment scheme                              *)
(*     (crates/core/src/poly_commit/tensor_pcs.rs),                         *)
(*   - the batched sum-check verifier                                       *)
(*     (crates/core/src/protocols/sumcheck/verify_sumcheck.rs),             *)
(*   - the byte-level binary tower arithmetic they compute with             *)
(*     (crates/field/src/arch/aarch64/simd_arithmetic.rs).                  *)
(* Field elements are the integers of their tower representation: GF(2) is *)
(* 0..1, GF(4) is 0..3, GF(16) is 0..15, GF(256) is 0..255, each a subfield *)
(* of the next.  A tower level k names the field with 2^(2^k) elements.     *)
(***************************************************************************)
EXTENDS Integers, Sequences, FiniteSets, TLC

(***************************************************************************)
(* Byte-level tower arithmetic                                              *)
(***************************************************************************)

\* The discrete logarithm and exponential tables of the byte-level field.
TOWER_LOG_LOOKUP_TABLE ==
  << 0, 0, 170, 85, 204, 187, 51, 238, 119, 153, 102, 221, 34, 136, 68, 17,
     210, 207, 141, 1, 45, 252, 216, 16, 157, 83, 110, 78, 217, 53, 230, 228,
     125, 171, 122, 56, 132, 143, 223, 145, 215, 186, 167, 131, 72, 248, 253, 25,
     40, 226, 86, 37, 242, 195, 163, 168, 47, 60, 58, 138, 130, 46, 101, 82,
     159, 165, 27, 2, 156, 220, 59, 166, 90, 249, 32, 177, 205, 201, 106, 179,
     142, 162, 203, 15, 160, 139, 89, 148, 184, 10, 73, 149, 42, 232, 240, 188,
     6, 96, 208, 13, 134, 104, 3, 48, 26, 161, 12, 192, 67, 52, 24, 129,
     193, 211, 235, 93, 61, 28, 213, 190, 36, 124, 140, 254, 199, 66, 239, 200,
     74, 172, 80, 197, 120, 94, 116, 21, 71, 81, 135, 229, 5, 92, 164, 202,
     108, 8, 126, 150, 114, 115, 236, 154, 231, 105, 198, 128, 206, 169, 39, 55,
     57, 185, 77, 118, 212, 103, 147, 155, 75, 63, 54, 4, 99, 64, 180, 243,
     176, 183, 11, 123, 237, 44, 222, 194, 49, 218, 19, 173, 196, 107, 76, 182,
     244, 112, 87, 250, 175, 117, 7, 79, 35, 191, 9, 31, 241, 144, 251, 50,
     91, 38, 98, 181, 111, 97, 22, 246, 152, 109, 214, 137, 219, 88, 133, 189,
     23, 65, 178, 41, 121, 225, 84, 209, 29, 69, 30, 151, 146, 43, 20, 113,
     227, 33, 100, 247, 14, 158, 234, 95, 127, 70, 18, 62, 245, 174, 233, 224 >>

TOWER_EXP_LOOKUP_TABLE ==
  << 1, 19, 67, 102, 171, 140, 96, 198, 145, 202, 89, 178, 106, 99, 244, 83,
     23, 15, 250, 186, 238, 135, 214, 224, 110, 47, 104, 66, 117, 232, 234, 203,
     74, 241, 12, 200, 120, 51, 209, 158, 48, 227, 92, 237, 181, 20, 61, 56,
     103, 184, 207, 6, 109, 29, 170, 159, 35, 160, 58, 70, 57, 116, 251, 169,
     173, 225, 125, 108, 14, 233, 249, 136, 44, 90, 128, 168, 190, 162, 27, 199,
     130, 137, 63, 25, 230, 3, 50, 194, 221, 86, 72, 208, 141, 115, 133, 247,
     97, 213, 210, 172, 242, 62, 10, 165, 101, 153, 78, 189, 144, 217, 26, 212,
     193, 239, 148, 149, 134, 197, 163, 8, 132, 228, 34, 179, 121, 32, 146, 248,
     155, 111, 60, 43, 36, 222, 100, 138, 13, 219, 59, 85, 122, 18, 80, 37,
     205, 39, 236, 166, 87, 91, 147, 235, 216, 9, 151, 167, 68, 24, 245, 64,
     84, 105, 81, 54, 142, 65, 71, 42, 55, 157, 2, 33, 129, 187, 253, 196,
     176, 75, 226, 79, 174, 211, 191, 177, 88, 161, 41, 5, 95, 223, 119, 201,
     107, 112, 183, 53, 188, 131, 154, 124, 127, 77, 143, 82, 4, 76, 156, 17,
     98, 231, 16, 113, 164, 118, 218, 40, 22, 28, 185, 220, 69, 11, 182, 38,
     255, 229, 49, 240, 31, 139, 30, 152, 93, 254, 246, 114, 150, 180, 7, 126,
     94, 204, 52, 175, 192, 252, 215, 243, 45, 73, 195, 206, 21, 46, 123, 1 >>

\* The image in the AES field of each byte of the tower field.
TOWER_TO_AES_LOOKUP_TABLE ==
  << 0, 1, 188, 189, 176, 177, 12, 13, 236, 237, 80, 81, 92, 93, 224, 225,
     211, 210, 111, 110, 99, 98, 223, 222, 63, 62, 131, 130, 143, 142, 51, 50,
     141, 140, 49, 48, 61, 60, 129, 128, 97, 96, 221, 220, 209, 208, 109, 108,
     94, 95, 226, 227, 238, 239, 82, 83, 178, 179, 14, 15, 2, 3, 190, 191,
     46, 47, 146, 147, 158, 159, 34, 35, 194, 195, 126, 127, 114, 115, 206, 207,
     253, 252, 65, 64, 77, 76, 241, 240, 17, 16, 173, 172, 161, 160, 29, 28,
     163, 162, 31, 30, 19, 18, 175, 174, 79, 78, 243, 242, 255, 254, 67, 66,
     112, 113, 204, 205, 192, 193, 124, 125, 156, 157, 32, 33, 44, 45, 144, 145,
     88, 89, 228, 229, 232, 233, 84, 85, 180, 181, 8, 9, 4, 5, 184, 185,
     139, 138, 55, 54, 59, 58, 135, 134, 103, 102, 219, 218, 215, 214, 107, 106,
     213, 212, 105, 104, 101, 100, 217, 216, 57, 56, 133, 132, 137, 136, 53, 52,
     6, 7, 186, 187, 182, 183, 10, 11, 234, 235, 86, 87, 90, 91, 230, 231,
     118, 119, 202, 203, 198, 199, 122, 123, 154, 155, 38, 39, 42, 43, 150, 151,
     165, 164, 25, 24, 21, 20, 169, 168, 73, 72, 245, 244, 249, 248, 69, 68,
     251, 250, 71, 70, 75, 74, 247, 246, 23, 22, 171, 170, 167, 166, 27, 26,
     40, 41, 148, 149, 152, 153, 36, 37, 196, 197, 120, 121, 116, 117, 200, 201 >>

\* The image in the tower field of each byte of the AES field.
AES_TO_TOWER_LOOKUP_TABLE ==
  << 0, 1, 60, 61, 140, 141, 176, 177, 138, 139, 182, 183, 6, 7, 58, 59,
     89, 88, 101, 100, 213, 212, 233, 232, 211, 210, 239, 238, 95, 94, 99, 98,
     122, 123, 70, 71, 246, 247, 202, 203, 240, 241, 204, 205, 124, 125, 64, 65,
     35, 34, 31, 30, 175, 174, 147, 146, 169, 168, 149, 148, 37, 36, 25, 24,
     83, 82, 111, 110, 223, 222, 227, 226, 217, 216, 229, 228, 85, 84, 105, 104,
     10, 11, 54, 55, 134, 135, 186, 187, 128, 129, 188, 189, 12, 13, 48, 49,
     41, 40, 21, 20, 165, 164, 153, 152, 163, 162, 159, 158, 47, 46, 19, 18,
     112, 113, 76, 77, 252, 253, 192, 193, 250, 251, 198, 199, 118, 119, 74, 75,
     39, 38, 27, 26, 171, 170, 151, 150, 173, 172, 145, 144, 33, 32, 29, 28,
     126, 127, 66, 67, 242, 243, 206, 207, 244, 245, 200, 201, 120, 121, 68, 69,
     93, 92, 97, 96, 209, 208, 237, 236, 215, 214, 235, 234, 91, 90, 103, 102,
     4, 5, 56, 57, 136, 137, 180, 181, 142, 143, 178, 179, 2, 3, 62, 63,
     116, 117, 72, 73, 248, 249, 196, 197, 254, 255, 194, 195, 114, 115, 78, 79,
     45, 44, 17, 16, 161, 160, 157, 156, 167, 166, 155, 154, 43, 42, 23, 22,
     14, 15, 50, 51, 130, 131, 190, 191, 132, 133, 184, 185, 8, 9, 52, 53,
     87, 86, 107, 106, 219, 218, 231, 230, 221, 220, 225, 224, 81, 80, 109, 108 >>

\* The square of each byte of the tower field.
TOWER_SQUARE_LOOKUP_TABLE ==
  << 0, 1, 3, 2, 9, 8, 10, 11, 7, 6, 4, 5, 14, 15, 13, 12,
     65, 64, 66, 67, 72, 73, 75, 74, 70, 71, 69, 68, 79, 78, 76, 77,
     195, 194, 192, 193, 202, 203, 201, 200, 196, 197, 199, 198, 205, 204, 206, 207,
     130, 131, 129, 128, 139, 138, 136, 137, 133, 132, 134, 135, 140, 141, 143, 142,
     169, 168, 170, 171, 160, 161, 163, 162, 174, 175, 173, 172, 167, 166, 164, 165,
     232, 233, 235, 234, 225, 224, 226, 227, 239, 238, 236, 237, 230, 231, 229, 228,
     106, 107, 105, 104, 99, 98, 96, 97, 109, 108, 110, 111, 100, 101, 103, 102,
     43, 42, 40, 41, 34, 35, 33, 32, 44, 45, 47, 46, 37, 36, 38, 39,
     87, 86, 84, 85, 94, 95, 93, 92, 80, 81, 83, 82, 89, 88, 90, 91,
     22, 23, 21, 20, 31, 30, 28, 29, 17, 16, 18, 19, 24, 25, 27, 26,
     148, 149, 151, 150, 157, 156, 158, 159, 147, 146, 144, 145, 154, 155, 153, 152,
     213, 212, 214, 215, 220, 221, 223, 222, 210, 211, 209, 208, 219, 218, 216, 217,
     254, 255, 253, 252, 247, 246, 244, 245, 249, 248, 250, 251, 240, 241, 243, 242,
     191, 190, 188, 189, 182, 183, 181, 180, 184, 185, 187, 186, 177, 176, 178, 179,
     61, 60, 62, 63, 52, 53, 55, 54, 58, 59, 57, 56, 51, 50, 48, 49,
     124, 125, 127, 126, 117, 116, 118, 119, 123, 122, 120, 121, 114, 115, 113, 112 >>

\* The inverse of each byte of the tower field, 0 for 0.
TOWER_INVERT_OR_ZERO_LOOKUP_TABLE ==
  << 0, 1, 3, 2, 6, 14, 4, 15, 13, 10, 9, 12, 11, 8, 5, 7,
     20, 103, 148, 123, 16, 102, 158, 126, 210, 129, 39, 75, 209, 143, 47, 66,
     60, 230, 222, 124, 179, 193, 74, 26, 48, 233, 221, 121, 177, 198, 67, 30,
     40, 232, 157, 185, 99, 57, 141, 194, 98, 53, 131, 197, 32, 231, 151, 187,
     97, 72, 31, 46, 172, 200, 188, 86, 65, 96, 38, 27, 207, 170, 91, 190,
     239, 115, 109, 94, 247, 134, 71, 189, 136, 252, 191, 78, 118, 224, 83, 108,
     73, 64, 56, 52, 228, 235, 21, 17, 139, 133, 175, 169, 95, 82, 152, 146,
     251, 181, 238, 81, 183, 240, 92, 225, 220, 43, 149, 19, 35, 223, 23, 159,
     211, 25, 196, 58, 138, 105, 85, 246, 88, 253, 132, 104, 195, 54, 208, 29,
     166, 243, 111, 153, 18, 122, 186, 62, 110, 147, 160, 248, 184, 50, 22, 127,
     154, 249, 226, 219, 237, 216, 144, 242, 174, 107, 77, 206, 68, 201, 168, 106,
     199, 44, 192, 36, 250, 113, 241, 116, 156, 51, 150, 63, 70, 87, 79, 90,
     178, 37, 55, 140, 130, 59, 45, 176, 69, 173, 215, 255, 244, 212, 171, 76,
     142, 28, 24, 128, 205, 245, 254, 202, 165, 236, 227, 163, 120, 42, 34, 125,
     93, 119, 162, 218, 100, 234, 33, 61, 49, 41, 229, 101, 217, 164, 114, 80,
     117, 182, 167, 145, 204, 213, 135, 84, 155, 161, 180, 112, 89, 137, 214, 203 >>

\* The product of each byte of the tower field with alpha = 0x10.
TOWER_MUL_ALPHA_LOOKUP_TABLE ==
  << 0, 16, 32, 48, 64, 80, 96, 112, 128, 144, 160, 176, 192, 208, 224, 240,
     65, 81, 97, 113, 1, 17, 33, 49, 193, 209, 225, 241, 129, 145, 161, 177,
     130, 146, 162, 178, 194, 210, 226, 242, 2, 18, 34, 50, 66, 82, 98, 114,
     195, 211, 227, 243, 131, 147, 163, 179, 67, 83, 99, 115, 3, 19, 35, 51,
     148, 132, 180, 164, 212, 196, 244, 228, 20, 4, 52, 36, 84, 68, 116, 100,
     213, 197, 245, 229, 149, 133, 181, 165, 85, 69, 117, 101, 21, 5, 53, 37,
     22, 6, 54, 38, 86, 70, 118, 102, 150, 134, 182, 166, 214, 198, 246, 230,
     87, 71, 119, 103, 23, 7, 55, 39, 215, 199, 247, 231, 151, 135, 183, 167,
     232, 248, 200, 216, 168, 184, 136, 152, 104, 120, 72, 88, 40, 56, 8, 24,
     169, 185, 137, 153, 233, 249, 201, 217, 41, 57, 9, 25, 105, 121, 73, 89,
     106, 122, 74, 90, 42, 58, 10, 26, 234, 250, 202, 218, 170, 186, 138, 154,
     43, 59, 11, 27, 107, 123, 75, 91, 171, 187, 139, 155, 235, 251, 203, 219,
     124, 108, 92, 76, 60, 44, 28, 12, 252, 236, 220, 204, 188, 172, 156, 140,
     61, 45, 29, 13, 125, 109, 93, 77, 189, 173, 157, 141, 253, 237, 221, 205,
     254, 238, 222, 206, 190, 174, 158, 142, 126, 110, 94, 78, 62, 46, 30, 14,
     191, 175, 159, 143, 255, 239, 223, 207, 63, 47, 31, 15, 127, 111, 95, 79 >>

\* The inverse of each byte of the AES field, 0 for 0.
AES_INVERT_OR_ZERO_LOOKUP_TABLE ==
  << 0, 1, 141, 246, 203, 82, 123, 209, 232, 79, 41, 192, 176, 225, 229, 199,
     116, 180, 170, 75, 153, 43, 96, 95, 88, 63, 253, 204, 255, 64, 238, 178,
     58, 110, 90, 241, 85, 77, 168, 201, 193, 10, 152, 21, 48, 68, 162, 194,
     44, 69, 146, 108, 243, 57, 102, 66, 242, 53, 32, 111, 119, 187, 89, 25,
     29, 254, 55, 103, 45, 49, 245, 105, 167, 100, 171, 19, 84, 37, 233, 9,
     237, 92, 5, 202, 76, 36, 135, 191, 24, 62, 34, 240, 81, 236, 97, 23,
     22, 94, 175, 211, 73, 166, 54, 67, 244, 71, 145, 223, 51, 147, 33, 59,
     121, 183, 151, 133, 16, 181, 186, 60, 182, 112, 208, 6, 161, 250, 129, 130,
     131, 126, 127, 128, 150, 115, 190, 86, 155, 158, 149, 217, 247, 2, 185, 164,
     222, 106, 50, 109, 216, 138, 132, 114, 42, 20, 159, 136, 249, 220, 137, 154,
     251, 124, 46, 195, 143, 184, 101, 72, 38, 200, 18, 74, 206, 231, 210, 98,
     12, 224, 31, 239, 17, 117, 120, 113, 165, 142, 118, 61, 189, 188, 134, 87,
     11, 40, 47, 163, 218, 212, 228, 15, 169, 39, 83, 4, 27, 252, 172, 230,
     122, 7, 174, 99, 197, 219, 226, 234, 148, 139, 196, 213, 157, 248, 144, 107,
     177, 13, 214, 235, 198, 14, 207, 173, 8, 78, 215, 227, 93, 80, 30, 179,
     91, 35, 56, 52, 104, 70, 3, 140, 221, 156, 125, 160, 205, 26, 65, 28 >>

\* lookup_16x8b, one lane: the byte of the table at index x.
lookup_16x8b(table, x) == table[x + 1]

\* The multiplication without the overflow correction of the logarithms.
packed_tower_16x8b_multiply_uncorrected(a, b) ==
  LET loga == lookup_16x8b(TOWER_LOG_LOOKUP_TABLE, a)
      logb == lookup_16x8b(TOWER_LOG_LOOKUP_TABLE, b)
      log_sum == (loga + logb) % 256
      c == lookup_16x8b(TOWER_EXP_LOOKUP_TABLE, log_sum)
  IN  IF a = 0 \/ b = 0 THEN 0 ELSE c

\* The multiplication that also corrects a sum equal to the first logarithm.
packed_tower_16x8b_multiply_corrected_at_equal(a, b) ==
  LET loga     == lookup_16x8b(TOWER_LOG_LOOKUP_TABLE, a)
      logb     == lookup_16x8b(TOWER_LOG_LOOKUP_TABLE, b)
      log_sum  == (loga + logb) % 256
      overflow == IF loga >= log_sum THEN 255 ELSE 0
      logc     == (log_sum - overflow + 256) % 256
      c        == lookup_16x8b(TOWER_EXP_LOOKUP_TABLE, logc)
  IN  IF a = 0 \/ b = 0 THEN 0 ELSE c

\* packed_tower_16x8b_multiply, one lane: 8-bit wrapping addition of the two
\* logarithms, overflow correction (subtracting the all-ones mask adds 1
\* modulo 256), exponentiation, and masking to zero when an operand is zero.
packed_tower_16x8b_multiply(a, b) ==
  LET loga     == lookup_16x8b(TOWER_LOG_LOOKUP_TABLE, a)
      logb     == lookup_16x8b(TOWER_LOG_LOOKUP_TABLE, b)
      log_sum  == (loga + logb) % 256
      overflow == IF loga > log_sum THEN 255 ELSE 0
      logc     == (log_sum - overflow + 256) % 256
      c        == lookup_16x8b(TOWER_EXP_LOOKUP_TABLE, logc)
  IN  IF a = 0 \/ b = 0 THEN 0 ELSE c

\* The products of all pairs of bytes, a table indexed like the lookup tables
\* of the code (\o makes TLC store each row, and the table of rows, instead
\* of computing a product again at each application).
MulTable ==
  [a \in 1 .. 256 |->
     [b \in 1 .. 256 |-> packed_tower_16x8b_multiply(a - 1, b - 1)] \o <<>>] \o <<>>

\* Field multiplication of two scalars of any level up to the byte level.
Mul(a, b) == MulTable[a + 1][b + 1]

\* Bitwise XOR of two naturals.
RECURSIVE Xor(_, _)
Xor(a, b) ==
  IF a = 0 THEN b
  ELSE IF b = 0 THEN a
  ELSE ((a + b) % 2) + 2 * Xor(a \div 2, b \div 2)

XorTable == [a \in 1 .. 256 |-> [b \in 1 .. 256 |-> Xor(a - 1, b - 1)] \o <<>>] \o <<>>

\* Field addition: bitwise XOR of the two representations.
Add(a, b) == XorTable[a + 1][b + 1]

\* Bitwise XOR of two 16-bit values, byte by byte.
Xor16(a, b) == Add(a % 256, b % 256) + 256 * Add(a \div 256, b \div 256)

\* 2^n.
RECURSIVE Pow2Rec(_)
Pow2Rec(n) == IF n = 0 THEN 1 ELSE 2 * Pow2Rec(n - 1)
Pow2Table == [n \in 0 .. 30 |-> Pow2Rec(n)]
Pow2(n) == Pow2Table[n]

\* usize::is_power_of_two.
RECURSIVE IsPowerOfTwo(_)
IsPowerOfTwo(n) ==
  IF n <= 0 THEN FALSE
  ELSE IF n = 1 THEN TRUE
  ELSE n % 2 = 0 /\ IsPowerOfTwo(n \div 2)

\* log2_ceil_usize: the least k with 2^k >= n (0 for n <= 1).
RECURSIVE log2_ceil_usize(_)
log2_ceil_usize(n) == IF n <= 1 THEN 0 ELSE 1 + log2_ceil_usize((n + 1) \div 2)

\* log2_strict_usize of a power of two.
log2_strict_usize(n) == log2_ceil_usize(n)

\* Number of bits of a scalar of tower level k, and the degree of level hi
\* over level lo.
NBits(k) == Pow2(k)
Degree(hi, lo) == Pow2(hi - lo)
FieldOf(k) == 0 .. (Pow2(NBits(k)) - 1)

\* Sum of a sequence of field elements.
RECURSIVE SumSeq(_)
SumSeq(s) == IF s = <<>> THEN 0 ELSE Add(Head(s), SumSeq(Tail(s)))

\* Concatenation of a sequence of sequences.
RECURSIVE Flatten(_)
Flatten(ss) == IF ss = <<>> THEN <<>> ELSE Head(ss) \o Flatten(Tail(ss))

\* inner_product_unchecked: the iterators are zipped, so the shorter one decides.
inner_product_unchecked(a, b) ==
  LET n == IF Len(a) < Len(b) THEN Len(a) ELSE Len(b)
  IN  SumSeq([i \in 1 .. n |-> Mul(a[i], b[i])])

\* The i-th (0-based) coordinate of x, a scalar of level hi, over level lo:
\* the i-th group of 2^lo bits, least significant first.
Coord(x, hi, lo, i) == (x \div Pow2(NBits(lo) * i)) % Pow2(NBits(lo))

\* cast_to_bases: a buffer of level-hi scalars viewed as level-lo scalars.
cast_to_bases(buf, hi, lo) ==
  LET d == Degree(hi, lo)
  IN  [p \in 1 .. Len(buf) * d |-> Coord(buf[((p - 1) \div d) + 1], hi, lo, (p - 1) % d)]

\* The scalar of level hi whose coordinates over level lo are cs.
RECURSIVE FromCoords(_, _)
FromCoords(cs, lo) ==
  IF cs = <<>> THEN 0 ELSE Head(cs) + Pow2(NBits(lo)) * FromCoords(Tail(cs), lo)

\* try_cast_to_ext: a buffer of level-lo scalars viewed as level-hi scalars.
cast_to_ext(buf, lo, hi) ==
  LET d == Degree(hi, lo)
  IN  [q \in 1 .. (Len(buf) \div d) |->
         FromCoords([i \in 1 .. d |-> buf[(q - 1) * d + i]], lo)]

(***************************************************************************)
(* The other byte-level operations of simd_arithmetic.rs, one lane each    *)
(***************************************************************************)

\* The square reading the table of products with alpha instead.
packed_tower_16x8b_square_alpha_table(x) == lookup_16x8b(TOWER_MUL_ALPHA_LOOKUP_TABLE, x)

packed_tower_16x8b_square(x) == lookup_16x8b(TOWER_SQUARE_LOOKUP_TABLE, x)

\* The inversion reading the table of squares instead.
packed_tower_16x8b_invert_or_zero_square_table(x) == lookup_16x8b(TOWER_SQUARE_LOOKUP_TABLE, x)

\* The inversion reading the table of the AES field instead.
packed_tower_16x8b_invert_or_zero_aes_table(x) == lookup_16x8b(AES_INVERT_OR_ZERO_LOOKUP_TABLE, x)

packed_tower_16x8b_invert_or_zero(x) == lookup_16x8b(TOWER_INVERT_OR_ZERO_LOOKUP_TABLE, x)

packed_tower_16x8b_multiply_alpha(x) == lookup_16x8b(TOWER_MUL_ALPHA_LOOKUP_TABLE, x)

packed_aes_16x8b_invert_or_zero(x) == lookup_16x8b(AES_INVERT_OR_ZERO_LOOKUP_TABLE, x)

\* The conversion to the AES field reading the table of the other direction.
packed_tower_16x8b_into_aes_reversed(x) == lookup_16x8b(AES_TO_TOWER_LOOKUP_TABLE, x)

packed_tower_16x8b_into_aes(x) == lookup_16x8b(TOWER_TO_AES_LOOKUP_TABLE, x)

packed_aes_16x8b_into_tower(x) == lookup_16x8b(AES_TO_TOWER_LOOKUP_TABLE, x)

\* The polynomial (carry-less) product of two bytes, a 16-bit value.
RECURSIVE vmull_p8(_, _)
vmull_p8(a, b) ==
  IF b = 0 THEN 0
  ELSE Xor16(IF b % 2 = 1 THEN a ELSE 0, 2 * vmull_p8(a, b \div 2))

\* The product in the AES field: the carry-less product c, reduced with the
\* two further carry-less products of the code (by 0x8d, shifted left once
\* within 16 bits, and by 0x1b).
packed_aes_16x8b_multiply(a, b) ==
  LET c == vmull_p8(a, b)
      cl == c % 256
      ch == c \div 256
      tmp == (vmull_p8(ch, 141) * 2) % 65536
      tmp_hi == tmp \div 256
      tmp_lo == vmull_p8(tmp_hi, 27) % 256
  IN Add(cl, tmp_lo)

\* Multiplication by 0xD3 in the AES field.
packed_aes_16x8b_mul_alpha(x) == packed_aes_16x8b_multiply(x, 211)

(***************************************************************************)
(* The packed multiplication one level above the bytes.  A packed word is  *)
(* the sequence of its byte lanes, lowest first; an element of the 16-bit  *)
(* field is two neighbouring lanes (a_0 in the even lane, a_1 in the odd   *)
(* lane, lanes counted from 0).                                            *)
(***************************************************************************)

\* Lanewise operations of the packed byte field.
PackedXor(x, y) == [i \in DOMAIN x |-> Add(x[i], y[i])]
PackedMul(x, y) == [i \in DOMAIN x |-> packed_tower_16x8b_multiply(x[i], y[i])]

\* x & INTERLEAVE_ODD_MASK[3]: the odd lanes of x, zero in the even lanes.
AndOddMask(x) == [i \in DOMAIN x |-> IF i % 2 = 0 THEN x[i] ELSE 0]

\* ALPHAS_ODD of the byte field: alpha = 0x10 in the even lane of each pair.
ALPHAS_ODD(n) == [i \in 1 .. n |-> IF i % 2 = 1 THEN 16 ELSE 0]

\* M128::interleave at byte blocks: the even lanes of a and b alternate in
\* the first word, their odd lanes in the second.
interleave(a, b) ==
  << [i \in DOMAIN a |-> IF i % 2 = 1 THEN a[i] ELSE b[i - 1]],
     [i \in DOMAIN a |-> IF i % 2 = 1 THEN a[i + 1] ELSE b[i]] >>

\* Level 3: the shuffle [1, 0, 3, 2, ...] swaps the lanes of each pair.
flip_even_odd(x) == [i \in DOMAIN x |-> IF i % 2 = 1 THEN x[i + 1] ELSE x[i - 1]]

\* Level 3: each 64-bit half shifted left by 8 bits, so every lane moves one
\* place up and the lowest lane of each half becomes 0.
shift_left(x) == [i \in DOMAIN x |-> IF (i - 1) % 8 = 0 THEN 0 ELSE x[i - 1]]

\* The packed multiplication without the alphas in its second product.
TaggedMul_mul_without_alphas(a, b) ==
  LET p1 == PackedMul(a, b)
      lohi == interleave(a, b)
      lo == lohi[1]
      hi == lohi[2]
      lr == interleave(PackedXor(lo, hi), AndOddMask(p1))
      p2 == PackedMul(lr[1], lr[2])
      q1 == PackedXor(p1, flip_even_odd(p1))
      q2 == PackedXor(p2, shift_left(p2))
  IN PackedXor(q1, AndOddMask(q2))

TaggedMul_mul(a, b) ==
  LET alphas == ALPHAS_ODD(Len(a))
      p1 == PackedMul(a, b)
      lohi == interleave(a, b)
      lo == lohi[1]
      hi == lohi[2]
      lr == interleave(PackedXor(lo, hi), PackedXor(alphas, AndOddMask(p1)))
      p2 == PackedMul(lr[1], lr[2])
      q1 == PackedXor(p1, flip_even_odd(p1))
      q2 == PackedXor(p2, shift_left(p2))
  IN PackedXor(q1, AndOddMask(q2))

\* Lanewise operations of the packed byte field on the lanes of a word.
PackedMulAlpha(x) == [i \in DOMAIN x |-> packed_tower_16x8b_multiply_alpha(x[i])]
PackedSquare(x) == [i \in DOMAIN x |-> packed_tower_16x8b_square(x[i])]
PackedInvertOrZero(x) == [i \in DOMAIN x |-> packed_tower_16x8b_invert_or_zero(x[i])]

\* Level 3: the shuffle [1, 1, 3, 3, ...] copies the odd lane of each pair
\* into both lanes.
duplicate_odd(x) == [i \in DOMAIN x |-> IF i % 2 = 1 THEN x[i + 1] ELSE x[i]]

\* (x & INTERLEAVE_ODD_MASK) | (y & INTERLEAVE_EVEN_MASK): the odd lanes of
\* x and the even lanes of y.
blend_odd_even(x, y) == [i \in DOMAIN x |-> IF i % 2 = 0 THEN x[i] ELSE y[i]]

\* The inversion multiplying the inverse of delta by the operand itself.
TaggedInvertOrZero_invert_or_zero_unblended(a0_a1) ==
  LET a1_a0             == flip_even_odd(a0_a1)
      a1alpha           == PackedMulAlpha(a1_a0)
      a0_plus_a1alpha   == PackedXor(a0_a1, a1alpha)
      a1sq_a0sq         == PackedSquare(a1_a0)
      delta             == PackedXor(a1sq_a0sq, PackedMul(a0_plus_a1alpha, a0_a1))
      deltainv          == PackedInvertOrZero(delta)
      deltainv_deltainv == duplicate_odd(deltainv)
  IN  PackedMul(deltainv_deltainv, a0_a1)

\* TaggedInvertOrZero::invert_or_zero of the packed 16-bit field over the
\* packed byte field.
TaggedInvertOrZero_invert_or_zero(a0_a1) ==
  LET a1_a0             == flip_even_odd(a0_a1)
      a1alpha           == PackedMulAlpha(a1_a0)
      a0_plus_a1alpha   == PackedXor(a0_a1, a1alpha)
      a1sq_a0sq         == PackedSquare(a1_a0)
      delta             == PackedXor(a1sq_a0sq, PackedMul(a0_plus_a1alpha, a0_a1))
      deltainv          == PackedInvertOrZero(delta)
      deltainv_deltainv == duplicate_odd(deltainv)
      delta_multiplier  == blend_odd_even(a0_a1, a0_plus_a1alpha)
  IN  PackedMul(deltainv_deltainv, delta_multiplier)

(***************************************************************************)
(* Multilinear extensions and queries.  A multilinear in mu variables is   *)
(* its sequence of 2^mu evaluations, variable 0 the least significant bit  *)
(* of the (0-based) index.                                                  *)
(***************************************************************************)

\* MultilinearExtension::n_vars.
MLE_n_vars(evals) == log2_strict_usize(Len(evals))

\* MultilinearQuery::with_full_query(r).into_expansion(): the tensor
\* expansion of r, the entry at index v being the product over i of
\* r[i] when bit i of v is set and 1 - r[i] otherwise.
RECURSIVE into_expansion(_)
into_expansion(r) ==
  IF r = <<>> THEN <<1>>
  ELSE LET prev == into_expansion(SubSeq(r, 1, Len(r) - 1))
           last == r[Len(r)]
       IN  [i \in 1 .. Len(prev) |-> Mul(prev[i], Add(1, last))]
           \o [i \in 1 .. Len(prev) |-> Mul(prev[i], last)]

\* MultilinearExtension::evaluate: the inner product of the evaluations with
\* the expansion of the query (the query has n_vars entries).
MLE_evaluate(evals, expansion) ==
  SumSeq([i \in 1 .. Len(evals) |-> Mul(evals[i], expansion[i])])

\* MultilinearExtension::evaluate_partial_high: fixes the last k variables,
\* k the number of variables of the query, and leaves a multilinear in the
\* first n_vars - k variables.
evaluate_partial_high(evals, expansion) ==
  LET n == Len(evals) \div Len(expansion)
  IN  [c \in 1 .. n |->
         SumSeq([h \in 1 .. Len(expansion) |->
                   Mul(evals[(h - 1) * n + c], expansion[h])])]

(***************************************************************************)
(* Linear codes.  A code is a record [dim, len, gen], gen the dim x len     *)
(* generator matrix over the alphabet.                                      *)
(***************************************************************************)

dim_bits(code) == log2_strict_usize(code.dim)

\* The codeword of one message.
Encode(code, msg) ==
  [j \in 1 .. code.len |->
     SumSeq([i \in 1 .. code.dim |-> Mul(code.gen[i][j], msg[i])])]

\* LinearCode::encode_batch_inplace: the buffer holds 2^log_batch interleaved
\* messages (symbol i of message b at position i * 2^log_batch + b) in its
\* first dim * 2^log_batch positions, and afterwards the interleaved codewords.
encode_batch_inplace(code, buf, log_batch) ==
  LET nb    == Pow2(log_batch)
      cw(b) == Encode(code, [i \in 1 .. code.dim |-> buf[(i - 1) * nb + b]])
      cws   == [b \in 1 .. nb |-> cw(b)]
  IN  [p \in 1 .. code.len * nb |-> cws[((p - 1) % nb) + 1][((p - 1) \div nb) + 1]]

(***************************************************************************)
(* Hashing and the Merkle vector commitment.  Digests are symbolic: the    *)
(* digest of a value is a record holding it, so distinct values have        *)
(* distinct digests.                                                        *)
(***************************************************************************)

\* binius_hash::hash of a slice.
hash(data) == [hashed |-> data]

\* The compression of two digests.
compress(l, r) == [left |-> l, right |-> r]

\* The layers of the tree over a power-of-two number of leaves, leaves first.
RECURSIVE MerkleLayers(_)
MerkleLayers(layer) ==
  IF Len(layer) <= 1 THEN <<layer>>
  ELSE <<layer>> \o
       MerkleLayers([i \in 1 .. Len(layer) \div 2 |->
                       compress(layer[2 * i - 1], layer[2 * i])])

\* VectorCommitScheme::commit_batch: leaf j is the hash of the j-th digests of
\* all the vectors; the commitment is the root.
commit_batch(all_digests) ==
  LET n      == Len(all_digests[1])
      leaves == [j \in 1 .. n |->
                   hash([i \in 1 .. Len(all_digests) |-> all_digests[i][j]])]
      layers == MerkleLayers(leaves)
  IN  [commitment |-> layers[Len(layers)][1], layers |-> layers]

\* (index >> d) XOR 1, for the sibling of a node.
Sibling(pos) == IF pos % 2 = 0 THEN pos + 1 ELSE pos - 1

\* VectorCommitScheme::prove_batch_opening: the siblings of leaf index, from
\* the leaves up.
prove_batch_opening(vcs_committed, index) ==
  [d \in 1 .. Len(vcs_committed.layers) - 1 |->
     vcs_committed.layers[d][Sibling(index \div Pow2(d - 1)) + 1]]

\* The root computed from a node at position pos and the rest of its path.
RECURSIVE WalkPath(_, _, _)
WalkPath(node, pos, path) ==
  IF path = <<>> THEN node
  ELSE WalkPath(IF pos % 2 = 0 THEN compress(node, Head(path))
                               ELSE compress(Head(path), node),
                pos \div 2, Tail(path))

\* VectorCommitScheme::verify_batch_opening: TRUE when the path has log_len
\* siblings and leads from the hash of the leaf digests to the commitment.
verify_batch_opening(log_len, commitment, index, vcs_proof, leaf_digests) ==
  /\ Len(vcs_proof) = log_len
  /\ WalkPath(hash(leaf_digests), index, vcs_proof) = commitment

(***************************************************************************)
(* The Fiat-Shamir challenger: a state and, for the record, the operations *)
(* performed on it.  Its outputs are a fixed function of the initial state *)
(* and of everything observed and sampled so far.                           *)
(***************************************************************************)

NewChallenger(seed) == [st |-> (seed * 41) % 251, log |-> <<>>]

\* CanObserve::observe_slice.
RECURSIVE observe_slice(_, _)
observe_slice(ch, xs) ==
  IF xs = <<>> THEN ch
  ELSE observe_slice([st  |-> (ch.st * 7 + Head(xs) + 1) % 251,
                      log |-> Append(ch.log, <<"observe", Head(xs)>>)],
                     Tail(xs))

\* CanSample::sample of a scalar of the given tower level: the sampled value
\* and the challenger after it.
sample(ch, level) ==
  LET v == (ch.st \div 3) % Pow2(NBits(level))
  IN  [value |-> v,
       ch    |-> [st  |-> (ch.st * 5 + 3) % 251,
                  log |-> Append(ch.log, <<"sample", v>>)]]

\* CanSample::sample_vec.
RECURSIVE sample_vec(_, _, _)
sample_vec(ch, level, n) ==
  IF n = 0 THEN [values |-> <<>>, ch |-> ch]
  ELSE LET s    == sample(ch, level)
           rest == sample_vec(s.ch, level, n - 1)
       IN  [values |-> <<s.value>> \o rest.values, ch |-> rest.ch]

\* CanSampleBits::sample_bits.
sample_bits(ch, bits) ==
  LET v == (ch.st \div 16) % Pow2(bits)
  IN  [value |-> v,
       ch    |-> [st  |-> (ch.st * 11 + 7) % 251,
                  log |-> Append(ch.log, <<"sample_bits", v>>)]]

(***************************************************************************)
(* The Tensor-PCS.  A scheme is a record                                    *)
(*   [log_rows, n_test_queries, code,                                       *)
(*    levF, levA, levI, levE,      tower levels of F, F_A, F_I, F_E         *)
(*    wP, wPI, wPE]                packing widths of P, PI, PE              *)
(* Buffers of packed elements are sequences of their scalars; a buffer of  *)
(* n scalars of width-w packed elements has n / w packed elements.          *)
(***************************************************************************)

\* TensorPCS::new without the check of the packing width of PE.
TensorPCS_new_unchecked_PE(log_rows, code, n_test_queries, deg_I, deg_E, wP, wPI, wPE) ==
  LET Err(e) == [err |-> e, pcs |-> <<>>]
  IN  IF ~IsPowerOfTwo(code.len) THEN Err("CodeLengthPowerOfTwoRequired")
      ELSE IF ~IsPowerOfTwo(deg_I) THEN Err("ExtensionDegreePowerOfTwoRequired")
      ELSE IF ~IsPowerOfTwo(deg_E) THEN Err("ExtensionDegreePowerOfTwoRequired")
      ELSE IF Pow2(log_rows) % wP # 0 THEN Err("PackingWidthMustDivideNumberOfRows")
      ELSE IF Pow2(log_rows) % wPI # 0 THEN Err("PackingWidthMustDivideNumberOfRows")
      ELSE IF code.dim % wPI # 0 THEN Err("PackingWidthMustDivideCodeDimension")
      ELSE [err |-> "Ok",
            pcs |-> <<[log_rows |-> log_rows, n_test_queries |-> n_test_queries,
                       code |-> code]>>]

\* TensorPCS::new: the error it returns, or "Ok", and the scheme it
\* constructs (none on an error).  deg_I and deg_E are the degrees of F_I and
\* F_E over F.
TensorPCS_new(log_rows, code, n_test_queries, deg_I, deg_E, wP, wPI, wPE) ==
  LET Err(e) == [err |-> e, pcs |-> <<>>]
  IN  IF ~IsPowerOfTwo(code.len) THEN Err("CodeLengthPowerOfTwoRequired")
      ELSE IF ~IsPowerOfTwo(deg_I) THEN Err("ExtensionDegreePowerOfTwoRequired")
      ELSE IF ~IsPowerOfTwo(deg_E) THEN Err("ExtensionDegreePowerOfTwoRequired")
      ELSE IF Pow2(log_rows) % wP # 0 THEN Err("PackingWidthMustDivideNumberOfRows")
      ELSE IF Pow2(log_rows) % wPI # 0 THEN Err("PackingWidthMustDivideNumberOfRows")
      ELSE IF code.dim % wPI # 0 THEN Err("PackingWidthMustDivideCodeDimension")
      ELSE IF code.dim % wPE # 0 THEN Err("PackingWidthMustDivideCodeDimension")
      ELSE [err |-> "Ok",
            pcs |-> <<[log_rows |-> log_rows, n_test_queries |-> n_test_queries,
                       code |-> code]>>]

\* TensorPCS::log_cols and PolyCommitScheme::n_vars.
log_cols(pcs) == dim_bits(pcs.code) + log2_strict_usize(Degree(pcs.levI, pcs.levF))
n_vars(pcs) == pcs.log_rows + log_cols(pcs)

\* The encoded matrix of one polynomial in commit: the evaluations cast to
\* the intermediate field, transposed to column-major, and batch-encoded.
\* The result holds code.len columns of 2^log_rows intermediate scalars each.
EncodedMatrix(pcs, poly) ==
  LET n_rows     == Pow2(pcs.log_rows)
      dim        == pcs.code.dim
      vals       == cast_to_ext(poly, pcs.levF, pcs.levI)
      transposed == [p \in 1 .. n_rows * dim |->
                       vals[((p - 1) % n_rows) * dim + ((p - 1) \div n_rows) + 1]]
      encoded    == transposed \o [p \in 1 .. n_rows * (pcs.code.len - dim) |-> 0]
      log_batch  == pcs.log_rows + log2_strict_usize(Degree(pcs.levI, pcs.levA))
  IN  cast_to_ext(
        encode_batch_inplace(pcs.code, cast_to_bases(encoded, pcs.levI, pcs.levA),
                             log_batch),
        pcs.levA, pcs.levI)

\* RowMajorMatrix::row_slice of an encoded matrix: column index of it.
row_slice(pcs, mat, index) ==
  LET n_rows == Pow2(pcs.log_rows)
  IN  SubSeq(mat, index * n_rows + 1, (index + 1) * n_rows)

\* PolyCommitScheme::commit.
commit(pcs, polys) ==
  IF \E i \in 1 .. Len(polys) : MLE_n_vars(polys[i]) # n_vars(pcs)
  THEN [err |-> "IncorrectPolynomialSize", commitment |-> <<>>,
        mats |-> <<>>, vcs_committed |-> <<>>]
  ELSE LET mats        == [i \in 1 .. Len(polys) |-> EncodedMatrix(pcs, polys[i])]
           all_digests == [i \in 1 .. Len(polys) |->
                             [j \in 1 .. pcs.code.len |->
                                hash(row_slice(pcs, mats[i], j - 1))]]
           vcs         == commit_batch(all_digests)
       IN  [err |-> "Ok", commitment |-> vcs.commitment,
            mats |-> mats, vcs_committed |-> vcs]

\* mix_t_primes adding the t' up without the mixing coefficients.
mix_t_primes_unweighted(n, t_primes, mixing_coeffs) ==
  IF \E i \in 1 .. Len(t_primes) : MLE_n_vars(t_primes[i]) # n
  THEN [err |-> "IncorrectPolynomialSize", expected |-> n, mixed |-> <<>>]
  ELSE [err   |-> "Ok",
        mixed |-> [v \in 1 .. Pow2(n) |->
                     SumSeq([i \in 1 .. Len(t_primes) |-> t_primes[i][v]])]]

\* mix_t_primes reporting the size of the first t' of the wrong size.
mix_t_primes_expected_found(n, t_primes, mixing_coeffs) ==
  IF \E i \in 1 .. Len(t_primes) : MLE_n_vars(t_primes[i]) # n
  THEN [err |-> "IncorrectPolynomialSize",
        expected |-> MLE_n_vars(t_primes[
                       CHOOSE i \in 1 .. Len(t_primes) :
                         /\ MLE_n_vars(t_primes[i]) # n
                         /\ \A j \in 1 .. i - 1 : MLE_n_vars(t_primes[j]) = n]),
        mixed |-> <<>>]
  ELSE [err   |-> "Ok",
        mixed |-> [v \in 1 .. Pow2(n) |->
                     inner_product_unchecked(
                       [i \in 1 .. Len(t_primes) |-> t_primes[i][v]],
                       mixing_coeffs)]]

\* mix_t_primes.
mix_t_primes(n, t_primes, mixing_coeffs) ==
  IF \E i \in 1 .. Len(t_primes) : MLE_n_vars(t_primes[i]) # n
  THEN [err |-> "IncorrectPolynomialSize", expected |-> n, mixed |-> <<>>]
  ELSE [err   |-> "Ok",
        mixed |-> [v \in 1 .. Pow2(n) |->
                     inner_product_unchecked(
                       [i \in 1 .. Len(t_primes) |-> t_primes[i][v]],
                       mixing_coeffs)]]

\* OpenColumns drawing the indices with one bit more than the code length
\* has.
RECURSIVE OpenColumns_wide(_, _, _, _, _)
OpenColumns_wide(pcs, ch, committed, code_len_bits, n) ==
  IF n = 0 THEN [vcs_proofs |-> <<>>, ch |-> ch]
  ELSE LET s     == sample_bits(ch, code_len_bits + 1)
           index == s.value % Pow2(code_len_bits)
           entry == [cols      |-> [i \in 1 .. Len(committed.mats) |->
                                      row_slice(pcs, committed.mats[i], index)],
                     vcs_proof |-> prove_batch_opening(committed.vcs_committed, index)]
           rest  == OpenColumns_wide(pcs, s.ch, committed, code_len_bits, n - 1)
       IN  [vcs_proofs |-> <<entry>> \o rest.vcs_proofs, ch |-> rest.ch]

\* The openings of prove_evaluation: one index sampled per test query, the
\* Merkle path of that index and the column of every matrix at that index.
RECURSIVE OpenColumns(_, _, _, _, _)
OpenColumns(pcs, ch, committed, code_len_bits, n) ==
  IF n = 0 THEN [vcs_proofs |-> <<>>, ch |-> ch]
  ELSE LET s     == sample_bits(ch, code_len_bits)
           index == s.value
           entry == [cols      |-> [i \in 1 .. Len(committed.mats) |->
                                      row_slice(pcs, committed.mats[i], index)],
                     vcs_proof |-> prove_batch_opening(committed.vcs_committed, index)]
           rest  == OpenColumns(pcs, s.ch, committed, code_len_bits, n - 1)
       IN  [vcs_proofs |-> <<entry>> \o rest.vcs_proofs, ch |-> rest.ch]

\* PolyCommitScheme::prove_evaluation: the error or "Ok", the proof and the
\* challenger as the call leaves it.
prove_evaluation(pcs, challenger, committed, polys, query) ==
  LET n_polys             == Len(polys)
      n_challenges        == log2_ceil_usize(n_polys)
      mc                  == sample_vec(challenger, pcs.levE, n_challenges)
      mixing_coefficients == SubSeq(into_expansion(mc.values), 1, n_polys)
      none                == [n_polys |-> n_polys, mixed_t_prime |-> <<>>,
                              vcs_proofs |-> <<>>]
  IN  IF Len(committed.mats) # n_polys
      THEN [err |-> "NumBatchedMismatchError", proof |-> none, ch |-> mc.ch]
      ELSE IF Len(query) # n_vars(pcs)
      THEN [err |-> "IncorrectQuerySize", proof |-> none, ch |-> mc.ch]
      ELSE
        LET code_len_bits  == log2_strict_usize(pcs.code.len)
            log_block_size == log2_strict_usize(Degree(pcs.levI, pcs.levF))
            log_n_cols     == dim_bits(pcs.code) + log_block_size
            partial_query  == into_expansion(SubSeq(query, log_n_cols + 1, Len(query)))
            t_primes       == [i \in 1 .. n_polys |->
                                 evaluate_partial_high(polys[i], partial_query)]
            t_prime        == mix_t_primes(log_n_cols, t_primes, mixing_coefficients)
        IN  IF t_prime.err # "Ok"
            THEN [err |-> t_prime.err, expected |-> t_prime.expected,
                  proof |-> none, ch |-> mc.ch]
            ELSE
              LET observed == observe_slice(mc.ch, t_prime.mixed)
                  opened   == OpenColumns(pcs, observed, committed, code_len_bits,
                                          pcs.n_test_queries)
              IN  [err   |-> "Ok",
                   proof |-> [n_polys       |-> n_polys,
                              mixed_t_prime |-> t_prime.mixed,
                              vcs_proofs    |-> opened.vcs_proofs],
                   ch    |-> opened.ch]

\* The first shape error among the opened sets from position k on, scanning
\* the sets in order and the columns of each set in order, or "Ok".
RECURSIVE OpenedSetsShape(_, _, _)
OpenedSetsShape(pcs, proof, k) ==
  IF k > Len(proof.vcs_proofs) THEN "Ok"
  ELSE LET polys_col == proof.vcs_proofs[k].cols
           n_rows    == Pow2(pcs.log_rows)
       IN  IF Len(polys_col) # proof.n_polys THEN "NumBatchedMismatchError"
           ELSE IF \E i \in 1 .. Len(polys_col) :
                     (Len(polys_col[i]) \div pcs.wPI) * pcs.wPI # n_rows
                THEN "OpenedColumnSize"
                ELSE OpenedSetsShape(pcs, proof, k + 1)

\* check_proof_shape reporting a wrong number of columns as a wrong column
\* size.
check_proof_shape_three_errors(pcs, proof) ==
  LET log_block_size == log2_strict_usize(Degree(pcs.levI, pcs.levF))
      log_n_cols     == dim_bits(pcs.code) + log_block_size
      sets           == OpenedSetsShape(pcs, proof, 1)
  IN  IF Len(proof.vcs_proofs) # pcs.n_test_queries THEN "NumberOfOpeningProofs"
      ELSE IF sets = "NumBatchedMismatchError" THEN "OpenedColumnSize"
      ELSE IF sets # "Ok" THEN sets
      ELSE IF MLE_n_vars(proof.mixed_t_prime) # log_n_cols THEN "PartialEvaluationSize"
      ELSE "Ok"

\* TensorPCS::check_proof_shape: the error it returns, or "Ok".
check_proof_shape(pcs, proof) ==
  LET log_block_size == log2_strict_usize(Degree(pcs.levI, pcs.levF))
      log_n_cols     == dim_bits(pcs.code) + log_block_size
      sets           == OpenedSetsShape(pcs, proof, 1)
  IN  IF Len(proof.vcs_proofs) # pcs.n_test_queries THEN "NumberOfOpeningProofs"
      ELSE IF sets # "Ok" THEN sets
      ELSE IF MLE_n_vars(proof.mixed_t_prime) # log_n_cols THEN "PartialEvaluationSize"
      ELSE "Ok"

\* square_transpose on every chunk of n packed elements of width w of a
\* buffer of scalars: each chunk is an n x w matrix, a row per packed
\* element, and every n x n block of it is transposed.
square_transpose_chunks(f_view, n, w) ==
  [p \in 1 .. Len(f_view) |->
     LET g   == (p - 1) \div (n * w)
         q   == (p - 1) % (n * w)
         i   == q \div w
         blk == (q % w) \div n
         j   == (q % w) % n
     IN  f_view[g * n * w + j * w + blk * n + i + 1]]

\* TensorPCS::encode_ext: u', the encoding of t'.
encode_ext(pcs, t_prime) ==
  LET code_len_bits  == log2_strict_usize(pcs.code.len)
      block_size     == Degree(pcs.levI, pcs.levF)
      log_block_size == log2_strict_usize(block_size)
      log_n_cols     == dim_bits(pcs.code) + log_block_size
      padded         == t_prime \o
                        [p \in 1 .. Pow2(code_len_bits + log_block_size) - Pow2(log_n_cols)
                           |-> 0]
      transposed_in  ==
        IF log_block_size > 0
        THEN cast_to_ext(
               square_transpose_chunks(
                 cast_to_bases(cast_to_bases(t_prime, pcs.levE, pcs.levI),
                               pcs.levI, pcs.levF),
                 block_size, pcs.wP),
               pcs.levF, pcs.levE)
             \o SubSeq(padded, Pow2(log_n_cols) + 1, Len(padded))
        ELSE padded
      log_batch_size == log2_strict_usize(Degree(pcs.levE, pcs.levF))
      encoded        ==
        cast_to_ext(
          encode_batch_inplace(
            pcs.code,
            cast_to_bases(cast_to_bases(transposed_in, pcs.levE, pcs.levI),
                          pcs.levI, pcs.levA),
            log_batch_size + log2_strict_usize(Degree(pcs.levI, pcs.levA))),
          pcs.levA, pcs.levE)
  IN  IF log_block_size > 0
      THEN cast_to_ext(
             square_transpose_chunks(
               cast_to_bases(cast_to_bases(encoded, pcs.levE, pcs.levI),
                             pcs.levI, pcs.levF),
               block_size, pcs.wP),
             pcs.levF, pcs.levE)
      ELSE encoded

\* The values of n successive sample_bits of the challenger.
RECURSIVE sample_indices(_, _, _)
sample_indices(ch, bits, n) ==
  IF n = 0 THEN <<>>
  ELSE LET s == sample_bits(ch, bits)
       IN  <<s.value>> \o sample_indices(s.ch, bits, n - 1)

\* VerifyOpenings going through every opening, also after one has failed.
RECURSIVE VerifyOpenings_all(_, _, _, _, _)
VerifyOpenings_all(pcs, ch, commitment, vcs_proofs, k) ==
  IF k > Len(vcs_proofs) THEN [ok |-> TRUE, columns |-> <<>>, ch |-> ch]
  ELSE LET code_len_bits == log2_strict_usize(pcs.code.len)
           s             == sample_bits(ch, code_len_bits)
           index         == s.value
           cols          == vcs_proofs[k].cols
           leaf_digests  == [i \in 1 .. Len(cols) |-> hash(cols[i])]
           rest          == VerifyOpenings_all(pcs, s.ch, commitment, vcs_proofs, k + 1)
       IN  [ok      |-> /\ rest.ok
                        /\ verify_batch_opening(code_len_bits, commitment, index,
                                                vcs_proofs[k].vcs_proof, leaf_digests),
            columns |-> <<[index |-> index, cols |-> cols]>> \o rest.columns,
            ch      |-> rest.ch]

\* The vector commitment openings of verify_evaluation, in proof order: one
\* index is sampled per opening and the iteration stops at the first opening
\* that fails.
RECURSIVE VerifyOpenings(_, _, _, _, _)
VerifyOpenings(pcs, ch, commitment, vcs_proofs, k) ==
  IF k > Len(vcs_proofs) THEN [ok |-> TRUE, columns |-> <<>>, ch |-> ch]
  ELSE LET code_len_bits == log2_strict_usize(pcs.code.len)
           s             == sample_bits(ch, code_len_bits)
           index         == s.value
           cols          == vcs_proofs[k].cols
           leaf_digests  == [i \in 1 .. Len(cols) |-> hash(cols[i])]
       IN  IF ~verify_batch_opening(code_len_bits, commitment, index,
                                    vcs_proofs[k].vcs_proof, leaf_digests)
           THEN [ok |-> FALSE, columns |-> <<>>, ch |-> s.ch]
           ELSE LET rest == VerifyOpenings(pcs, s.ch, commitment, vcs_proofs, k + 1)
                IN  [ok      |-> rest.ok,
                     columns |-> <<[index |-> index, cols |-> cols]>> \o rest.columns,
                     ch      |-> rest.ch]

\* transpose_scalars of one opened column: the j-th (0-based) base-field
\* column, the j-th coordinate of every intermediate scalar.
base_col(pcs, col, j) ==
  [r \in 1 .. Len(col) |-> Coord(col[r], pcs.levI, pcs.levF, j)]

\* The column tests of verify_evaluation: for every opened index and every
\* j below the block size, the entry of u' that is expected and the
\* base-field columns of all the polynomials.
column_tests(pcs, columns, u_prime) ==
  LET block_size     == Degree(pcs.levI, pcs.levF)
      log_block_size == log2_strict_usize(block_size)
  IN  Flatten([k \in 1 .. Len(columns) |->
        [j1 \in 1 .. block_size |->
           [expected |-> u_prime[columns[k].index * Pow2(log_block_size) + (j1 - 1) + 1],
            leaves   |-> [i \in 1 .. Len(columns[k].cols) |->
                            base_col(pcs, columns[k].cols[i], j1 - 1)]]]])

\* check_columns testing the columns before the openings are verified.
check_columns_tests_first(pcs, ch, commitment, query, proof, mixing_coefficients) ==
  LET log_block_size == log2_strict_usize(Degree(pcs.levI, pcs.levF))
      log_n_cols     == dim_bits(pcs.code) + log_block_size
      u_prime        == encode_ext(pcs, proof.mixed_t_prime)
      openings       == VerifyOpenings(pcs, ch, commitment, proof.vcs_proofs, 1)
      indices        == sample_indices(ch, log2_strict_usize(pcs.code.len),
                                       Len(proof.vcs_proofs))
      tests          == column_tests(pcs,
                          [k \in 1 .. Len(proof.vcs_proofs) |->
                             [index |-> indices[k], cols |-> proof.vcs_proofs[k].cols]],
                          u_prime)
      multilin_query == into_expansion(SubSeq(query, log_n_cols + 1, Len(query)))
      incorrect_evaluation ==
        \E t \in 1 .. Len(tests) :
          inner_product_unchecked(
            [i \in 1 .. Len(tests[t].leaves) |->
               MLE_evaluate(tests[t].leaves[i], multilin_query)],
            mixing_coefficients) # tests[t].expected
  IN  IF incorrect_evaluation
      THEN [result |-> "IncorrectPartialEvaluation", ch |-> openings.ch]
      ELSE IF ~openings.ok
      THEN [result |-> "VectorCommit", ch |-> openings.ch]
      ELSE [result |-> "Ok", ch |-> openings.ch]

\* The second half of verify_evaluation, after the check of the claimed
\* value: t' is encoded into u', the openings are verified and every opened
\* column is tested against u'.  ch is the challenger after t' was observed.
check_columns(pcs, ch, commitment, query, proof, mixing_coefficients) ==
  LET log_block_size == log2_strict_usize(Degree(pcs.levI, pcs.levF))
      log_n_cols     == dim_bits(pcs.code) + log_block_size
      u_prime        == encode_ext(pcs, proof.mixed_t_prime)
      openings       == VerifyOpenings(pcs, ch, commitment, proof.vcs_proofs, 1)
      tests          == column_tests(pcs, openings.columns, u_prime)
      multilin_query == into_expansion(SubSeq(query, log_n_cols + 1, Len(query)))
      incorrect_evaluation ==
        \E t \in 1 .. Len(tests) :
          inner_product_unchecked(
            [i \in 1 .. Len(tests[t].leaves) |->
               MLE_evaluate(tests[t].leaves[i], multilin_query)],
            mixing_coefficients) # tests[t].expected
  IN  IF ~openings.ok
      THEN [result |-> "VectorCommit", ch |-> openings.ch]
      ELSE IF incorrect_evaluation
      THEN [result |-> "IncorrectPartialEvaluation", ch |-> openings.ch]
      ELSE [result |-> "Ok", ch |-> openings.ch]

\* verify_evaluation accepting whatever values are claimed.
verify_evaluation_any_value(pcs, challenger, commitment, query, proof, values) ==
  IF Len(values) # proof.n_polys
  THEN [result |-> "NumBatchedMismatchError", ch |-> challenger]
  ELSE
    LET n_challenges        == log2_ceil_usize(proof.n_polys)
        mc                  == sample_vec(challenger, pcs.levE, n_challenges)
        mixing_coefficients == SubSeq(into_expansion(mc.values), 1, proof.n_polys)
        shape               == check_proof_shape(pcs, proof)
    IN  IF Len(query) # n_vars(pcs)
        THEN [result |-> "IncorrectQuerySize", ch |-> mc.ch]
        ELSE IF shape # "Ok"
        THEN [result |-> shape, ch |-> mc.ch]
        ELSE check_columns(pcs, observe_slice(mc.ch, proof.mixed_t_prime),
                           commitment, query, proof, mixing_coefficients)

\* verify_evaluation reporting a wrong claimed value as a failed column test.
verify_evaluation_other_error(pcs, challenger, commitment, query, proof, values) ==
  IF Len(values) # proof.n_polys
  THEN [result |-> "NumBatchedMismatchError", ch |-> challenger]
  ELSE
    LET n_challenges        == log2_ceil_usize(proof.n_polys)
        mc                  == sample_vec(challenger, pcs.levE, n_challenges)
        mixing_coefficients == SubSeq(into_expansion(mc.values), 1, proof.n_polys)
        value               == inner_product_unchecked(values, mixing_coefficients)
        shape               == check_proof_shape(pcs, proof)
    IN  IF Len(query) # n_vars(pcs)
        THEN [result |-> "IncorrectQuerySize", ch |-> mc.ch]
        ELSE IF shape # "Ok"
        THEN [result |-> shape, ch |-> mc.ch]
        ELSE
          LET log_block_size == log2_strict_usize(Degree(pcs.levI, pcs.levF))
              log_n_cols     == dim_bits(pcs.code) + log_block_size
              observed       == observe_slice(mc.ch, proof.mixed_t_prime)
              computed_value == MLE_evaluate(proof.mixed_t_prime,
                                  into_expansion(SubSeq(query, 1, log_n_cols)))
          IN  IF computed_value # value
              THEN [result |-> "IncorrectPartialEvaluation", ch |-> observed]
              ELSE check_columns(pcs, observed, commitment, query, proof,
                                 mixing_coefficients)

\* PolyCommitScheme::verify_evaluation: the error or "Ok", and the challenger
\* as the call leaves it.
verify_evaluation(pcs, challenger, commitment, query, proof, values) ==
  IF Len(values) # proof.n_polys
  THEN [result |-> "NumBatchedMismatchError", ch |-> challenger]
  ELSE
    LET n_challenges        == log2_ceil_usize(proof.n_polys)
        mc                  == sample_vec(challenger, pcs.levE, n_challenges)
        mixing_coefficients == SubSeq(into_expansion(mc.values), 1, proof.n_polys)
        value               == inner_product_unchecked(values, mixing_coefficients)
        shape               == check_proof_shape(pcs, proof)
    IN  IF Len(query) # n_vars(pcs)
        THEN [result |-> "IncorrectQuerySize", ch |-> mc.ch]
        ELSE IF shape # "Ok"
        THEN [result |-> shape, ch |-> mc.ch]
        ELSE
          LET log_block_size == log2_strict_usize(Degree(pcs.levI, pcs.levF))
              log_n_cols     == dim_bits(pcs.code) + log_block_size
              observed       == observe_slice(mc.ch, proof.mixed_t_prime)
              computed_value == MLE_evaluate(proof.mixed_t_prime,
                                  into_expansion(SubSeq(query, 1, log_n_cols)))
          IN  IF computed_value # value
              THEN [result |-> "IncorrectEvaluation", ch |-> observed]
              ELSE check_columns(pcs, observed, commitment, query, proof,
                                 mixing_coefficients)

(***************************************************************************)
(* Parameter selection: query counts and proof sizes                        *)
(***************************************************************************)

\* The error bounds are computed on exact rationals: a natural number too
\* large for a machine integer is the sequence of its digits in base 2^15,
\* least significant first, without leading zeros (zero is the empty
\* sequence).  The source computes the bounds in f64; rounding is not
\* modelled.
BigDigit(x, i) == IF i <= Len(x) THEN x[i] ELSE 0

\* The digits lo .. hi of x * m + carry and the carry out of them, for a
\* multiplier m below 2^15.
RECURSIVE BigMulRange(_, _, _, _, _)
BigMulRange(x, m, lo, hi, carry) ==
  IF lo = hi
  THEN LET v == x[lo] * m + carry
       IN  [digits |-> <<v % 32768>>, carry |-> v \div 32768]
  ELSE LET mid  == (lo + hi) \div 2
           low  == BigMulRange(x, m, lo, mid, carry)
           high == BigMulRange(x, m, mid + 1, hi, low.carry)
       IN  [digits |-> low.digits \o high.digits, carry |-> high.carry]

\* The digits of r with its carry, if any, as the top digit.
WithCarry(r) == IF r.carry = 0 THEN r.digits ELSE Append(r.digits, r.carry)

\* x * m for a multiplier m below 2^15.
BigMul(x, m) ==
  IF x = <<>> \/ m = 0 THEN <<>> ELSE WithCarry(BigMulRange(x, m, 1, Len(x), 0))

\* The digits lo .. hi of x + y + carry and the carry out of them.
RECURSIVE BigAddRange(_, _, _, _, _)
BigAddRange(x, y, lo, hi, carry) ==
  IF lo = hi
  THEN LET v == BigDigit(x, lo) + BigDigit(y, lo) + carry
       IN  [digits |-> <<v % 32768>>, carry |-> v \div 32768]
  ELSE LET mid  == (lo + hi) \div 2
           low  == BigAddRange(x, y, lo, mid, carry)
           high == BigAddRange(x, y, mid + 1, hi, low.carry)
       IN  [digits |-> low.digits \o high.digits, carry |-> high.carry]

BigAdd(x, y) ==
  IF x = <<>> THEN y
  ELSE IF y = <<>> THEN x
  ELSE WithCarry(BigAddRange(x, y, 1, IF Len(x) > Len(y) THEN Len(x) ELSE Len(y), 0))

\* x * 2^k.
BigShl(x, k) ==
  IF x = <<>> THEN <<>> ELSE [i \in 1 .. (k \div 15) |-> 0] \o BigMul(x, Pow2(k % 15))

\* x * m^j for a multiplier m below 2^15.
RECURSIVE BigMulTimes(_, _, _)
BigMulTimes(x, m, j) ==
  IF x = <<>> THEN <<>>
  ELSE IF j = 0 THEN x
  ELSE IF j = 1 THEN BigMul(x, m)
  ELSE BigMulTimes(BigMulTimes(x, m, j \div 2), m, j - j \div 2)

BigPow(m, q) == BigMulTimes(<<1>>, m, q)

\* x <= y: they are equal, or x has the smaller digit where they differ last.
BigLeq(x, y) ==
  LET n    == IF Len(x) > Len(y) THEN Len(x) ELSE Len(y)
      diff == { i \in 1 .. n : BigDigit(x, i) # BigDigit(y, i) }
  IN  \/ diff = {}
      \/ LET top == CHOOSE i \in diff : \A j \in diff : j <= i
         IN  BigDigit(x, top) < BigDigit(y, top)

\* The number of bits of x.
BigBits(x) ==
  IF x = <<>> THEN 0
  ELSE 15 * (Len(x) - 1) + (CHOOSE b \in 1 .. 15 : Pow2(b - 1) <= x[Len(x)] /\ x[Len(x)] < Pow2(b))

\* The largest k with x * 2^k <= y for x # 0, and -1 when x > y.
ShiftRoomFrom(x, y, k0) ==
  IF k0 < 0 THEN -1
  ELSE IF BigLeq(BigShl(x, k0), y) THEN k0
  ELSE k0 - 1

BigShiftRoom(x, y) == ShiftRoomFrom(x, y, BigBits(y) - BigBits(x))

\* ReedSolomonCode::new(log_dim, log_inv_rate): dimension 2^log_dim, length
\* 2^(log_dim + log_inv_rate), minimum distance len - dim + 1.  The domain of
\* the code lies in the field of the code's alphabet, of n_bits bits.
ReedSolomonCode_new(log_dim, log_inv_rate, n_bits) ==
  IF log_dim + log_inv_rate > n_bits THEN [ok |-> FALSE, code |-> <<>>]
  ELSE [ok |-> TRUE,
        code |-> <<[dim |-> Pow2(log_dim), len |-> Pow2(log_dim + log_inv_rate),
                    min_dist |-> Pow2(log_dim + log_inv_rate) - Pow2(log_dim) + 1]>>]

\* (-total_err.log2()) as usize for total_err = max(t / 2^n_bits + (a / den)^q,
\* (p / den)^q) with q = n_queries: the largest k with total_err <= 2^-k, and
\* 0 when there is none (the cast of a negative float gives 0).
MinOrZero(k1, k2) == IF k1 < 0 \/ k2 < 0 THEN 0 ELSE IF k1 < k2 THEN k1 ELSE k2

ErrorBoundOfPowers(n_bits, t, a_q, p_q, den_q) ==
  MinOrZero(BigShiftRoom(BigAdd(BigMul(den_q, t), BigShl(a_q, n_bits)),
                         BigShl(den_q, n_bits)),
            BigShiftRoom(p_q, den_q))

ErrorBound(n_bits, t, a, p, den, n_queries) ==
  ErrorBoundOfPowers(n_bits, t, BigPow(a, n_queries), BigPow(p, n_queries),
                     BigPow(den, n_queries))

\* calculate_error_bound::<F, _>(log_rows, code, n_queries), F of n_bits bits.
calculate_error_bound(n_bits, log_rows, code, n_queries) ==
  LET e == (code.min_dist - 1) \div 3
  IN  ErrorBound(n_bits, 2 * log_rows * (e + 1), 3 * code.len - code.min_dist,
                 3 * code.len - 2 * code.min_dist, 3 * code.len, n_queries)

\* calculate_error_bound_reed_solomon::<_, FE, _>, FE of n_bits bits.
calculate_error_bound_reed_solomon(n_bits, log_rows, code, n_queries) ==
  LET e == (code.min_dist - 1) \div 2
  IN  ErrorBound(n_bits, 2 * log_rows * (e + 1), 2 * code.len - code.min_dist,
                 2 * code.len - code.min_dist, 2 * code.len, n_queries)

\* (a / den)^q <= 2^-security_bits, for pows = <<a^q, den^q>>.
PowersReach(pows, security_bits) == BigLeq(BigShl(pows[1], security_bits), pows[2])

\* The least power of two, from `step` on, at which the powers reach.
RECURSIVE FirstReachingStep(_, _, _, _)
FirstReachingStep(security_bits, a, den, step) ==
  IF PowersReach(<<BigPow(a, step), BigPow(den, step)>>, security_bits) THEN step
  ELSE FirstReachingStep(security_bits, a, den, 2 * step)

\* The last q, from q on, at which the powers do not reach: they do not at
\* q, where pows = <<a^q, den^q>>, and they do at q + 2 * step.
RECURSIVE LastNotReaching(_, _, _, _, _, _)
LastNotReaching(security_bits, a, den, q, pows, step) ==
  IF step = 0 THEN q
  ELSE LET next == <<BigMulTimes(pows[1], a, step), BigMulTimes(pows[2], den, step)>>
       IN  IF PowersReach(next, security_bits)
           THEN LastNotReaching(security_bits, a, den, q, pows, step \div 2)
           ELSE LastNotReaching(security_bits, a, den, q + step, next, step \div 2)

\* (-(security_bits as f64) / non_proximal_per_query_err.log2()).ceil() for
\* non_proximal_per_query_err = a / den < 1: the least q with
\* q * -log2(a / den) >= security_bits, that is with (a / den)^q <=
\* 2^-security_bits.
InitialQueries(security_bits, a, den) ==
  IF security_bits = 0 THEN 0
  ELSE LastNotReaching(security_bits, a, den, 0, <<<<1>>, <<1>>>>,
                       FirstReachingStep(security_bits, a, den, 1) \div 2) + 1

\* The loop of calculate_n_test_queries and of its Reed-Solomon variant:
\* st.iter iterations are done, st.n_queries is the candidate.
RECURSIVE QueriesLoop_eleven(_, _, _, _, _, _)
QueriesLoop_eleven(rs, n_bits, security_bits, log_rows, code, st) ==
  LET bound == IF rs THEN calculate_error_bound_reed_solomon(n_bits, log_rows, code, st.n_queries)
               ELSE calculate_error_bound(n_bits, log_rows, code, st.n_queries)
  IN  IF st.iter = 11 THEN [ok |-> FALSE, n_queries |-> 0]
      ELSE IF bound >= security_bits THEN [ok |-> TRUE, n_queries |-> st.n_queries]
      ELSE QueriesLoop_eleven(rs, n_bits, security_bits, log_rows, code,
                              [iter |-> st.iter + 1, n_queries |-> st.n_queries + 1])

RECURSIVE QueriesLoop(_, _, _, _, _, _)
QueriesLoop(rs, n_bits, security_bits, log_rows, code, st) ==
  LET bound == IF rs THEN calculate_error_bound_reed_solomon(n_bits, log_rows, code, st.n_queries)
               ELSE calculate_error_bound(n_bits, log_rows, code, st.n_queries)
  IN  IF st.iter = 10 THEN [ok |-> FALSE, n_queries |-> 0]
      ELSE IF bound >= security_bits THEN [ok |-> TRUE, n_queries |-> st.n_queries]
      ELSE QueriesLoop(rs, n_bits, security_bits, log_rows, code,
                       [iter |-> st.iter + 1, n_queries |-> st.n_queries + 1])

\* calculate_n_test_queries::<F, _>(security_bits, log_rows, code); ok = FALSE
\* is Err(ParameterError).
calculate_n_test_queries(n_bits, security_bits, log_rows, code) ==
  QueriesLoop(FALSE, n_bits, security_bits, log_rows, code,
              [iter |-> 0,
               n_queries |-> InitialQueries(security_bits, 3 * code.len - code.min_dist,
                                            3 * code.len)])

calculate_n_test_queries_reed_solomon(n_bits, security_bits, log_rows, code) ==
  QueriesLoop(TRUE, n_bits, security_bits, log_rows, code,
              [iter |-> 0,
               n_queries |-> InitialQueries(security_bits, 2 * code.len - code.min_dist,
                                            2 * code.len)])

\* mem::size_of of a packed field of `w` scalars of tower level `lev`, in
\* bytes: the packed types are stored in an underlier of exactly their bits.
size_of(w, lev) == (w * NBits(lev)) \div 8

\* MerkleTreeVCS::proof_size(n_vecs) for a tree of 2^log_len leaves: one
\* 32-byte digest per level of the authentication path.
vcs_proof_size(log_len, n_vecs) == log_len * 32

\* proof_size, the VCS part of an opening counted once instead of per query.
proof_size_path_once(pcs, n_polys) ==
  LET t_prime_size == (size_of(pcs.wPE, pcs.levE) * Pow2(log_cols(pcs))) \div pcs.wPE
      column_size  == (size_of(pcs.wPI, pcs.levI) * Pow2(pcs.log_rows)) \div pcs.wPI
  IN  t_prime_size + n_polys * column_size * pcs.n_test_queries
        + vcs_proof_size(log2_strict_usize(pcs.code.len), n_polys)

\* PolyCommitScheme::proof_size of the Tensor-PCS.
proof_size(pcs, n_polys) ==
  LET t_prime_size == (size_of(pcs.wPE, pcs.levE) * Pow2(log_cols(pcs))) \div pcs.wPE
      column_size  == (size_of(pcs.wPI, pcs.levI) * Pow2(pcs.log_rows)) \div pcs.wPI
  IN  t_prime_size
        + (n_polys * column_size
             + vcs_proof_size(log2_strict_usize(pcs.code.len), n_polys))
          * pcs.n_test_queries

\* TensorPCS::new_using_groestl_merkle_tree for the types `ty`, a record
\* [levF, levA, levI, levE, wP, wPI, wPE]: the scheme, or none on an error.
new_using_groestl_merkle_tree(ty, log_rows, code, n_test_queries) ==
  IF ~IsPowerOfTwo(code.len) THEN <<>>
  ELSE LET r == TensorPCS_new(log_rows, code, n_test_queries,
                              Degree(ty.levI, ty.levF), Degree(ty.levE, ty.levF),
                              ty.wP, ty.wPI, ty.wPE)
       IN  IF r.err # "Ok" THEN <<>>
           ELSE <<[log_rows |-> log_rows, n_test_queries |-> n_test_queries, code |-> code,
                   levF |-> ty.levF, levA |-> ty.levA, levI |-> ty.levI, levE |-> ty.levE,
                   wP |-> ty.wP, wPI |-> ty.wPI, wPE |-> ty.wPE]>>

\* The scheme with the query count q, or none when there is no query count.
SchemeWithQueries(ty, log_rows, code, q) ==
  IF ~q.ok THEN <<>> ELSE new_using_groestl_merkle_tree(ty, log_rows, code, q.n_queries)

\* One iteration of the loop of find_proof_size_optimal_pcs: the scheme for
\* log_rows, or none when the code, the query count or the constructor fails.
CandidatePCS(ty, security_bits, nv, log_inv_rate, conservative_testing, log_rows) ==
  LET log_degree == log2_strict_usize(Degree(ty.levI, ty.levF))
      log_dim    == nv - log_rows - log_degree
      rs         == ReedSolomonCode_new(log_dim, log_inv_rate, NBits(ty.levA))
  IN  IF ~rs.ok THEN <<>>
      ELSE SchemeWithQueries(ty, log_rows, rs.code[1],
             IF conservative_testing
             THEN calculate_n_test_queries(NBits(ty.levE), security_bits, log_rows, rs.code[1])
             ELSE calculate_n_test_queries_reed_solomon(NBits(ty.levE), security_bits,
                                                        log_rows, rs.code[1]))

\* The candidate c when there is no best scheme yet or c has the strictly
\* smaller proof, and best otherwise.
StrictlySmaller(c, best, n_polys) ==
  IF c = <<>> THEN best
  ELSE IF best = <<>> THEN c
  ELSE IF proof_size(c[1], n_polys) < proof_size(best[1], n_polys) THEN c
  ELSE best

\* The same, a candidate as small as the best replacing it.
SmallerOrLater(c, best, n_polys) ==
  IF c = <<>> THEN best
  ELSE IF best = <<>> THEN c
  ELSE IF proof_size(c[1], n_polys) <= proof_size(best[1], n_polys) THEN c
  ELSE best

\* The loop of find_proof_size_optimal_pcs from log_rows to last for the call
\* with the arguments `call`; best is the best scheme so far, or none.  Here
\* a candidate as small as the best replaces it.
RECURSIVE FindLoop_last_on_ties(_, _, _, _)
FindLoop_last_on_ties(call, log_rows, last, best) ==
  IF log_rows > last THEN best
  ELSE FindLoop_last_on_ties(call, log_rows + 1, last,
         SmallerOrLater(CandidatePCS(call.ty, call.security_bits, call.n_vars,
                                     call.log_inv_rate, call.conservative_testing, log_rows),
                        best, call.n_polys))

\* The loop of find_proof_size_optimal_pcs from log_rows to last for the call
\* with the arguments `call`; best is the best scheme so far, or none.
RECURSIVE FindLoop(_, _, _, _)
FindLoop(call, log_rows, last, best) ==
  IF log_rows > last THEN best
  ELSE FindLoop(call, log_rows + 1, last,
         StrictlySmaller(CandidatePCS(call.ty, call.security_bits, call.n_vars,
                                      call.log_inv_rate, call.conservative_testing, log_rows),
                         best, call.n_polys))

\* find_proof_size_optimal_pcs: the scheme found, or none.
find_proof_size_optimal_pcs(ty, security_bits, nv, n_polys, log_inv_rate, conservative_testing) ==
  LET log_degree == log2_strict_usize(Degree(ty.levI, ty.levF))
  IN  FindLoop([ty |-> ty, security_bits |-> security_bits, n_vars |-> nv,
                n_polys |-> n_polys, log_inv_rate |-> log_inv_rate,
                conservative_testing |-> conservative_testing],
               0, nv - log_degree, <<>>)

(***************************************************************************)
(* The batched sum-check verifier.  A claim is a record                     *)
(*   [n_vars, n_multilinears, composite_sums]                               *)
(* composite_sums a sequence of [composition, sum]; a composition is a      *)
(* record [kind, n_vars, degree].  The verifier computes over GF(4).        *)
(***************************************************************************)

\* is_sorted_ascending: no entry is greater than the next one.
is_sorted_ascending(s) == \A i \in 1 .. Len(s) - 1 : s[i] <= s[i + 1]

\* Iterator::rev, Vec::reverse.
Reverse(s) == [i \in 1 .. Len(s) |-> s[Len(s) + 1 - i]]

\* The greatest entry of a sequence of naturals, 0 when it is empty.
RECURSIVE MaxOf(_)
MaxOf(s) ==
  IF s = <<>> THEN 0
  ELSE LET m == MaxOf(Tail(s)) IN IF Head(s) > m THEN Head(s) ELSE m

\* evaluate_univariate: the polynomial with the given coefficients, constant
\* term first, at x.
RECURSIVE evaluate_univariate(_, _)
evaluate_univariate(coeffs, x) ==
  IF coeffs = <<>> THEN 0
  ELSE Add(Head(coeffs), Mul(x, evaluate_univariate(Tail(coeffs), x)))

\* batch_weighted_value: the values weighted by the powers of the batching
\* coefficient, the first by its first power.
batch_weighted_value(batch_coeff, values) ==
  Mul(batch_coeff, evaluate_univariate(values, batch_coeff))

\* RoundProof::recover: the coefficients of the round polynomial from the
\* ones sent, which leave out the constant term, and the running sum.
recover(coeffs, sum) == <<Add(sum, SumSeq(coeffs))>> \o coeffs

\* interpolate_round_proof taking the running sum itself for the constant
\* term of the round polynomial.
interpolate_round_proof_unrecovered(round_proof, sum, challenge) ==
  Add(sum, Mul(challenge, evaluate_univariate(round_proof, challenge)))

\* interpolate_round_proof.
interpolate_round_proof(round_proof, sum, challenge) ==
  evaluate_univariate(recover(round_proof, sum), challenge)

\* CompositionPoly::evaluate: an error when the query has not n_vars entries
\* (as IdentityCompositionPoly::evaluate does) or when the composition is
\* one whose evaluation fails at the query, else the value.
RECURSIVE ProductSeq(_)
ProductSeq(s) == IF s = <<>> THEN 1 ELSE Mul(Head(s), ProductSeq(Tail(s)))

composition_evaluate(composition, q) ==
  IF Len(q) # composition.n_vars THEN [ok |-> FALSE, value |-> 0]
  ELSE IF composition.kind = "fallible" /\ q[1] = 0 THEN [ok |-> FALSE, value |-> 0]
  ELSE [ok    |-> TRUE,
        value |-> IF composition.kind = "identity" THEN q[1]
                  ELSE IF composition.kind = "product" THEN ProductSeq(q)
                  ELSE SumSeq(q)]

\* SumcheckClaim::max_individual_degree.
max_individual_degree(claim) ==
  MaxOf([j \in 1 .. Len(claim.composite_sums) |->
           claim.composite_sums[j].composition.degree])

\* The verifier's transcript: the prover's message tape with the read
\* position, the sampler state, and the operations performed so far.
\* VerifierTranscript::sample; what and idx tell what the sample is for.
transcript_sample(tr, what, idx) ==
  LET s == sample([st |-> tr.st, log |-> <<>>], 1)
  IN  [value |-> s.value,
       tr    |-> [tr EXCEPT !.st = s.ch.st,
                            !.log = Append(@, <<"sample", what, idx, s.value>>)]]

\* TranscriptReader::read_scalar_slice: n scalars of the tape, which the
\* sampler absorbs, or an error when the tape has fewer left.
read_scalar_slice(tr, n, what, idx) ==
  IF tr.pos + n > Len(tr.tape) THEN [ok |-> FALSE, values |-> <<>>, tr |-> tr]
  ELSE LET vs == SubSeq(tr.tape, tr.pos + 1, tr.pos + n)
       IN  [ok     |-> TRUE,
            values |-> vs,
            tr     |-> [tr EXCEPT !.st = observe_slice([st |-> tr.st, log |-> <<>>], vs).st,
                                  !.pos = @ + n,
                                  !.log = Append(@, <<"read", what, idx, vs>>)]]

\* BatchInClaims batching every claim in at once, whatever its number of
\* variables.
RECURSIVE BatchInClaims_eager(_, _, _, _)
BatchInClaims_eager(cl, s, n, any) ==
  IF s.active_index >= Len(cl) THEN s
  ELSE LET claim == cl[s.active_index + 1]
           c     == transcript_sample(s.transcript, "batch_coeff", s.active_index)
           next_batch_coeff == c.value
       IN  BatchInClaims_eager(cl,
             [active_index |-> s.active_index + 1,
              batch_coeffs |-> Append(s.batch_coeffs, next_batch_coeff),
              sum          |-> Add(s.sum,
                                 batch_weighted_value(next_batch_coeff,
                                   [j \in 1 .. Len(claim.composite_sums) |->
                                      claim.composite_sums[j].sum])),
              max_degree   |-> IF max_individual_degree(claim) > s.max_degree
                               THEN max_individual_degree(claim)
                               ELSE s.max_degree,
              transcript   |-> c.tr],
             n, any)

\* The body of the two `while let Some(claim) = claims.get(active_index)`
\* loops of batch_verify: every next claim is batched in while it has n
\* variables (in the loop of a round) or while there is one (any = TRUE, the
\* loop after the rounds).  s is [active_index, batch_coeffs, sum,
\* max_degree, transcript].
RECURSIVE BatchInClaims(_, _, _, _)
BatchInClaims(cl, s, n, any) ==
  IF s.active_index >= Len(cl) THEN s
  ELSE LET claim == cl[s.active_index + 1]
       IN  IF ~any /\ claim.n_vars # n THEN s
           ELSE LET c == transcript_sample(s.transcript, "batch_coeff", s.active_index)
                    next_batch_coeff == c.value
                IN  BatchInClaims(cl,
                      [active_index |-> s.active_index + 1,
                       batch_coeffs |-> Append(s.batch_coeffs, next_batch_coeff),
                       sum          |-> Add(s.sum,
                                          batch_weighted_value(next_batch_coeff,
                                            [j \in 1 .. Len(claim.composite_sums) |->
                                               claim.composite_sums[j].sum])),
                       max_degree   |-> IF any THEN s.max_degree
                                        ELSE IF max_individual_degree(claim) > s.max_degree
                                             THEN max_individual_degree(claim)
                                             ELSE s.max_degree,
                       transcript   |-> c.tr],
                      n, any)

\* The claimed multilinear evaluations read after the rounds, one slice per
\* claim in claim order; ok is FALSE when a read fails.
RECURSIVE ReadEvals(_, _, _)
ReadEvals(cl, tr, k) ==
  IF k > Len(cl) THEN [ok |-> TRUE, evals |-> <<>>, tr |-> tr]
  ELSE LET r == read_scalar_slice(tr, cl[k].n_multilinears, "evals", k - 1)
       IN  IF ~r.ok THEN [ok |-> FALSE, evals |-> <<>>, tr |-> tr]
           ELSE LET rest == ReadEvals(cl, r.tr, k + 1)
                IN  [ok    |-> rest.ok,
                     evals |-> <<r.values>> \o rest.evals,
                     tr    |-> rest.tr]

\* compute_expected_batch_composite_evaluation_single_claim taking a failed
\* composition evaluation for zero.
single_claim_errors_as_zero(batch_coeff, claim, evals) ==
  LET composite_evals == [j \in 1 .. Len(claim.composite_sums) |->
                            composition_evaluate(claim.composite_sums[j].composition,
                                                 evals)]
  IN  [ok    |-> TRUE,
       value |-> batch_weighted_value(batch_coeff,
                   [j \in 1 .. Len(composite_evals) |-> composite_evals[j].value])]

\* compute_expected_batch_composite_evaluation_single_claim.
compute_expected_batch_composite_evaluation_single_claim(batch_coeff, claim, evals) ==
  LET composite_evals == [j \in 1 .. Len(claim.composite_sums) |->
                            composition_evaluate(claim.composite_sums[j].composition,
                                                 evals)]
  IN  IF \E j \in 1 .. Len(composite_evals) : ~composite_evals[j].ok
      THEN [ok |-> FALSE, value |-> 0]
      ELSE [ok    |-> TRUE,
            value |-> batch_weighted_value(batch_coeff,
                        [j \in 1 .. Len(composite_evals) |-> composite_evals[j].value])]

\* compute_expected_batch_composite_evaluation_multi_claim: izip stops at the
\* shortest of the three sequences.
compute_expected_batch_composite_evaluation_multi_claim(coeffs, cl, evals) ==
  LET Min(a, b) == IF a < b THEN a ELSE b
      n     == Min(Len(coeffs), Min(Len(cl), Len(evals)))
      terms == [i \in 1 .. n |->
                  compute_expected_batch_composite_evaluation_single_claim(
                    coeffs[i], cl[i], evals[i])]
  IN  IF \E i \in 1 .. n : ~terms[i].ok
      THEN [ok |-> FALSE, value |-> 0]
      ELSE [ok |-> TRUE, value |-> SumSeq([i \in 1 .. n |-> terms[i].value])]

(***************************************************************************)
(* Bounds of the model                                                      *)
(***************************************************************************)

\* The batches hold 1 .. MaxPolys polynomials.
MaxPolys == 3
\* The polynomials, the queries and the initial challenger states are
\* generated from the seeds 0 .. MaxPolySeed, 0 .. MaxQuerySeed, 0 .. MaxSeed.
MaxPolySeed == 1
MaxQuerySeed == 1
MaxSeed == 2

VARIABLES
  \* the commit / prove / verify run of the Tensor-PCS
  pc,                \* position of the run
  pcs,               \* the TensorPCS
  polys,             \* the batch of multilinears, each its evaluations over F
  query,             \* the evaluation point, over F_E
  committed,         \* what commit returned: commitment, matrices, VCS state
  proof,             \* what prove_evaluation returned
  prove_challenger,  \* the prover's challenger
  verify_challenger, \* the verifier's challenger
  submitted,         \* the proof and the values handed to verify_evaluation
  result,            \* what verify_evaluation returned
  \* the calls of TensorPCS::new
  new_args,          \* the arguments and type parameters of the last call
  new_result,        \* what it returned
  \* the run of batch_verify
  sc_pc,             \* position of the run
  claims,            \* the sum-check claims
  evaluation_order,  \* "LowToHigh" or "HighToLow"
  transcript,        \* the verifier's transcript
  round_no,
  active_index,
  batch_coeffs,
  challenges,
  sum,
  max_degree,
  output,            \* what batch_verify returned
  \* the calls of the parameter selection functions
  sel_args,          \* the function called and its arguments
  sel_result,        \* what it returned
  \* the calls of the byte-field arithmetic
  fld_args,          \* the operation applied and its operands
  fld_result,        \* what it returned
  \* the Merkle tree model and its trace
  mk_trees,          \* the trees built by MerkleTree::new
  mk_paths,          \* the inclusion statements, each a MerklePath
  mk_altered,        \* which statement was altered after merkle_path, or 0
  mk_verified,       \* the last call of verify_path and its outcome
  mk_trace,          \* what MerkleTreeTrace::generate returned
  mk_channels,       \* the channels after validate
  mk_fired,          \* an event fired alone on empty channels
  \* the calls on MultilinearComposite
  mc_args,           \* the function called and its arguments
  mc_result          \* what it returned

pcsVars == <<pc, pcs, polys, query, committed, proof, prove_challenger,
             verify_challenger, submitted, result>>
newVars == <<new_args, new_result>>
scVars == <<sc_pc, claims, evaluation_order, transcript, round_no, active_index,
            batch_coeffs, challenges, sum, max_degree, output>>
selVars == <<sel_args, sel_result>>
fldVars == <<fld_args, fld_result>>
mkVars == <<mk_trees, mk_paths, mk_altered, mk_verified, mk_trace, mk_channels,
            mk_fired>>
mcVars == <<mc_args, mc_result>>
vars == <<pcsVars, newVars, scVars, selVars, fldVars, mkVars, mcVars>>

\* A systematic code of dimension 2 and length 4 over GF(4), of minimum
\* distance 3: the message (m0, m1) is encoded as (m0, m1, m0 + m1, m0 + 2 m1).
Code4x2 == [dim |-> 2, len |-> 4, gen |-> << <<1, 0, 1, 1>>, <<0, 1, 1, 2>> >>]

\* The schemes of the model.  Basic schemes have F_I = F; the block scheme
\* has F = GF(2) and F_I = F_A = GF(4), a block of 2 bits per intermediate
\* scalar, and a packing of P as wide as the degree of F_E over F.
Schemes ==
  { [log_rows |-> 1, n_test_queries |-> 2, code |-> Code4x2,
     levF |-> 1, levA |-> 1, levI |-> 1, levE |-> 2,
     wP |-> 1, wPI |-> 1, wPE |-> 1],
    [log_rows |-> 2, n_test_queries |-> 2, code |-> Code4x2,
     levF |-> 2, levA |-> 1, levI |-> 2, levE |-> 2,
     wP |-> 2, wPI |-> 2, wPE |-> 1],
    [log_rows |-> 2, n_test_queries |-> 2, code |-> Code4x2,
     levF |-> 0, levA |-> 1, levI |-> 1, levE |-> 2,
     wP |-> 4, wPI |-> 2, wPE |-> 1] }

IsBlock(s) == s.levI > s.levF

\* The polynomial generated from seed s: 2^n_vars scalars of F.
GenPoly(s, seed) ==
  [i \in 1 .. Pow2(n_vars(s)) |->
     (((seed * 37 + i * 11 + 5) * (seed + i + 3)) % 61 \div 2) % Pow2(NBits(s.levF))]

\* The query generated from seed q: n_vars scalars of F_E; seed 0 gives the
\* all-zero point.
GenQuery(s, q) ==
  [i \in 1 .. n_vars(s) |->
     IF q = 0 THEN 0 ELSE ((q * 7 + i * 5) * (q + i)) % Pow2(NBits(s.levE))]

\* The true evaluations of the batch at the query.
TrueValues ==
  LET expansion == into_expansion(query)
  IN  [i \in 1 .. Len(polys) |-> MLE_evaluate(polys[i], expansion)]

NoProof == [n_polys |-> 0, mixed_t_prime |-> <<>>, vcs_proofs |-> <<>>]
NoCommitted == [err |-> "none", commitment |-> <<>>, mats |-> <<>>, vcs_committed |-> <<>>]
NoTranscript == [st |-> 0, tape |-> <<>>, pos |-> 0, log |-> <<>>]
NoOutput == [result |-> "none", challenges |-> <<>>, multilinear_evals |-> <<>>]
NoSubmission == [kind |-> "none", k |-> 0, i |-> 0, proof |-> NoProof, values |-> <<>>]

\* No run of the Tensor-PCS is going on.
PcsIdle ==
  /\ pc = "idle"
  /\ pcs = <<>>
  /\ polys = <<>>
  /\ query = <<>>
  /\ committed = NoCommitted
  /\ proof = NoProof
  /\ prove_challenger = NewChallenger(0)
  /\ verify_challenger = NewChallenger(0)
  /\ submitted = NoSubmission
  /\ result = "none"

\* TensorPCS::new has not been called.
NewIdle ==
  /\ new_args = <<>>
  /\ new_result = <<>>

\* No run of batch_verify is going on.
ScIdle ==
  /\ sc_pc = "idle"
  /\ claims = <<>>
  /\ evaluation_order = "LowToHigh"
  /\ transcript = NoTranscript
  /\ round_no = 0
  /\ active_index = 0
  /\ batch_coeffs = <<>>
  /\ challenges = <<>>
  /\ sum = 0
  /\ max_degree = 0
  /\ output = NoOutput

\* No parameter selection function has been called.
SelIdle ==
  /\ sel_args = <<>>
  /\ sel_result = <<>>

\* No field operation has been applied.
FldIdle ==
  /\ fld_args = <<>>
  /\ fld_result = <<>>

\* No tree has been built and no statement made.
MkIdle ==
  /\ mk_trees = <<>>
  /\ mk_paths = <<>>
  /\ mk_altered = 0
  /\ mk_verified = <<>>
  /\ mk_trace = <<>>
  /\ mk_channels = <<>>
  /\ mk_fired = <<>>

\* No function of MultilinearComposite has been called.
McIdle ==
  /\ mc_args = <<>>
  /\ mc_result = <<>>

PcsInit ==
  /\ NewIdle
  /\ ScIdle
  /\ SelIdle
  /\ FldIdle
  /\ MkIdle
  /\ McIdle
  /\ pc = "start"
  /\ pcs \in { s \in Schemes :
                 TensorPCS_new(s.log_rows, s.code, s.n_test_queries,
                               Degree(s.levI, s.levF), Degree(s.levE, s.levF),
                               s.wP, s.wPI, s.wPE).err = "Ok" }
  /\ \E n \in 1 .. MaxPolys, seed \in 0 .. MaxPolySeed :
       polys = [i \in 1 .. n |-> GenPoly(pcs, seed + 2 * i)]
  /\ \E q \in 0 .. MaxQuerySeed : query = GenQuery(pcs, q)
  /\ \E seed \in 0 .. MaxSeed :
       /\ prove_challenger = NewChallenger(seed)
       /\ verify_challenger = NewChallenger(seed)
  /\ committed = NoCommitted
  /\ proof = NoProof
  /\ submitted = NoSubmission
  /\ result = "none"

\* pcs.commit(&polys).
Commit ==
  /\ pc = "start"
  /\ committed' = commit(pcs, polys)
  /\ pc' = "committed"
  /\ UNCHANGED <<newVars, scVars, selVars, fldVars, mkVars, mcVars>>
  /\ UNCHANGED <<pcs, polys, query, proof, prove_challenger, verify_challenger,
                 submitted, result>>

\* pcs.prove_evaluation(&mut prove_challenger, &committed, &polys, &query).
ProveEvaluation ==
  /\ pc = "committed"
  /\ committed.err = "Ok"
  /\ LET r == prove_evaluation(pcs, prove_challenger, committed, polys, query)
     IN  /\ r.err = "Ok"
         /\ proof' = r.proof
         /\ prove_challenger' = r.ch
  /\ pc' = "proved"
  /\ UNCHANGED <<newVars, scVars, selVars, fldVars, mkVars, mcVars>>
  /\ UNCHANGED <<pcs, polys, query, committed, verify_challenger, submitted, result>>

\* polys with polynomial i replaced by one of one variable more or less.
Resized(ps, i, kind) ==
  [ps EXCEPT ![i] = IF kind = "long_poly" THEN @ \o @
                    ELSE SubSeq(@, 1, Len(@) \div 2)]

\* pcs.prove_evaluation on the committed matrices and a batch in which one
\* polynomial has not the number of variables of the scheme: the error is
\* kept in result, the size it names in submitted.k.
ProveEvaluationWrongSize ==
  /\ pc = "committed"
  /\ committed.err = "Ok"
  /\ \E i \in 1 .. Len(polys), kind \in {"long_poly", "short_poly"} :
       LET r == prove_evaluation(pcs, prove_challenger, committed,
                                 Resized(polys, i, kind), query)
       IN  /\ kind = "short_poly" => Len(polys[i]) \div 2 >= Pow2(pcs.log_rows)
           /\ r.err = "IncorrectPolynomialSize"
           /\ result' = r.err
           /\ submitted' = [kind |-> kind, k |-> r.expected, i |-> i,
                            proof |-> r.proof, values |-> <<>>]
           /\ prove_challenger' = r.ch
  /\ pc' = "prove_failed"
  /\ UNCHANGED <<newVars, scVars, selVars, fldVars, mkVars, mcVars>>
  /\ UNCHANGED <<pcs, polys, query, committed, proof, verify_challenger>>

Submit(kind, k, i, p, vs) ==
  /\ pc = "proved"
  /\ submitted' = [kind |-> kind, k |-> k, i |-> i, proof |-> p, values |-> vs]
  /\ pc' = "submitted"
  /\ UNCHANGED <<newVars, scVars, selVars, fldVars, mkVars, mcVars>>
  /\ UNCHANGED <<pcs, polys, query, committed, proof, prove_challenger,
                 verify_challenger, result>>

\* The honest proof with the true evaluations.
SubmitHonest == Submit("honest", 0, 0, proof, TrueValues)

\* The honest proof with one claimed value changed: values[i] is XORed with
\* a nonzero delta (the all-ones delta is the bitwise NOT).
SubmitWrongValue ==
  \E i \in 1 .. Len(polys), delta \in {1, Pow2(NBits(pcs.levE)) - 1} :
    Submit("wrong_value", delta, i, proof,
           [TrueValues EXCEPT ![i] = Add(@, delta)])

\* The honest proof with the last scalar of t' changed, and the true
\* evaluations.
SubmitFlippedTPrime ==
  \E delta \in {1, Pow2(NBits(pcs.levE)) - Pow2(NBits(pcs.levE) - 1)} :
    Submit("flip_t_prime", delta, 0,
           [proof EXCEPT !.mixed_t_prime[Len(proof.mixed_t_prime)] = Add(@, delta)],
           TrueValues)

\* A proof of the wrong shape, and the true evaluations.
SubmitMalformed ==
  \E k \in 1 .. Len(proof.vcs_proofs), i \in 1 .. Len(polys) :
    LET cols == proof.vcs_proofs[k].cols
        col  == cols[i]
        tp   == proof.mixed_t_prime
    IN  \/ /\ k = 1 /\ i = 1
           /\ \/ Submit("drop_opening", 0, 0,
                        [proof EXCEPT !.vcs_proofs = Tail(@)], TrueValues)
              \/ Submit("extra_opening", 0, 0,
                        [proof EXCEPT !.vcs_proofs = Append(@, @[1])], TrueValues)
              \/ Submit("short_t_prime", 0, 0,
                        [proof EXCEPT !.mixed_t_prime = SubSeq(tp, 1, Len(tp) \div 2)],
                        TrueValues)
              \/ Submit("long_t_prime", 0, 0,
                        [proof EXCEPT !.mixed_t_prime = tp \o [j \in 1 .. Len(tp) |-> 0]],
                        TrueValues)
        \/ /\ i = 1
           /\ \/ Submit("drop_column", k, 0,
                        [proof EXCEPT !.vcs_proofs[k].cols = Tail(cols)], TrueValues)
              \/ Submit("extra_column", k, 0,
                        [proof EXCEPT !.vcs_proofs[k].cols = Append(cols, cols[1])],
                        TrueValues)
        \/ Submit("short_column", k, i,
                  [proof EXCEPT !.vcs_proofs[k].cols[i] =
                                  SubSeq(col, 1, Len(col) - pcs.wPI)],
                  TrueValues)
        \/ Submit("long_column", k, i,
                  [proof EXCEPT !.vcs_proofs[k].cols[i] =
                                  col \o [j \in 1 .. pcs.wPI |-> 0]],
                  TrueValues)

\* A proof of the right shape with one opening changed: a column scalar or a
\* sibling of the Merkle path, and the true evaluations.
SubmitForged ==
  \E k \in 1 .. Len(proof.vcs_proofs), i \in 1 .. Len(polys) :
    \/ Submit("alter_column", k, i,
              [proof EXCEPT !.vcs_proofs[k].cols[i][1] = Add(@, 1)], TrueValues)
    \/ /\ i = 1
       /\ Submit("alter_path", k, 0,
                 [proof EXCEPT !.vcs_proofs[k].vcs_proof[1] = hash(<<>>)],
                 TrueValues)

\* The faults of a submission with several of them: submitted.k has the bit
\* b - 1 set when the submission has the b-th fault.
FaultNames == <<"values", "query", "shape", "value", "path", "t_prime">>
HasFault(k, fault) ==
  \E b \in 1 .. Len(FaultNames) :
    FaultNames[b] = fault /\ (k \div Pow2(b - 1)) % 2 = 1

\* The honest proof and the true evaluations with every fault of k: the
\* first claimed value dropped, the first opening dropped, the last claimed
\* value changed, the first sibling of the last opening's path changed, the
\* last scalar of t' changed.  The fault of the query is made at the call.
Faulty(k) ==
  LET changed == IF HasFault(k, "value")
                 THEN [TrueValues EXCEPT ![Len(TrueValues)] = Add(@, 1)]
                 ELSE TrueValues
      vs      == IF HasFault(k, "values") THEN Tail(changed) ELSE changed
      p1      == IF HasFault(k, "t_prime")
                 THEN [proof EXCEPT !.mixed_t_prime[Len(proof.mixed_t_prime)] = Add(@, 1)]
                 ELSE proof
      p2      == IF HasFault(k, "path")
                 THEN [p1 EXCEPT !.vcs_proofs[Len(p1.vcs_proofs)].vcs_proof[1] = hash(<<>>)]
                 ELSE p1
      p3      == IF HasFault(k, "shape")
                 THEN [p2 EXCEPT !.vcs_proofs = Tail(@)]
                 ELSE p2
  IN  [proof |-> p3, values |-> vs]

\* A submission with one or more faults, each of which alone may make
\* verify_evaluation fail at a different check.
SubmitCompound ==
  \E k \in 1 .. Pow2(Len(FaultNames)) - 1 :
    Submit("compound", k, 0, Faulty(k).proof, Faulty(k).values)

\* The query handed to verify_evaluation: the query of the run, without its
\* first scalar when the submission has the fault of the query.
SubmittedQuery ==
  IF submitted.kind = "compound" /\ HasFault(submitted.k, "query")
  THEN Tail(query) ELSE query

\* pcs.verify_evaluation(&mut verify_challenger, &commitment, &query, proof, &values).
VerifyEvaluation ==
  /\ pc = "submitted"
  /\ LET r == verify_evaluation(pcs, verify_challenger, committed.commitment,
                                SubmittedQuery, submitted.proof, submitted.values)
     IN  /\ result' = r.result
         /\ verify_challenger' = r.ch
  /\ pc' = "verified"
  /\ UNCHANGED <<newVars, scVars, selVars, fldVars, mkVars, mcVars>>
  /\ UNCHANGED <<pcs, polys, query, committed, proof, prove_challenger, submitted>>

PcsNext ==
  \/ Commit
  \/ ProveEvaluation
  \/ ProveEvaluationWrongSize
  \/ SubmitHonest
  \/ SubmitWrongValue
  \/ SubmitFlippedTPrime
  \/ SubmitMalformed
  \/ SubmitForged
  \/ SubmitCompound
  \/ VerifyEvaluation

\* The commit / prove / verify runs of the Tensor-PCS.
Spec == PcsInit /\ [][PcsNext]_vars

(***************************************************************************)
(* The calls of TensorPCS::new                                              *)
(***************************************************************************)

\* log_rows is drawn from 0 .. MaxLogRows, the code dimension from
\* 1 .. MaxCodeDim, the code length is the dimension times 1 .. MaxInvRate,
\* the degrees of F_I and F_E over F are drawn from 1 .. MaxDegree and the
\* packing widths are the powers of two up to 2^MaxLogWidth.
MaxLogRows == 2
MaxCodeDim == 4
MaxInvRate == 3
MaxDegree == 4
MaxLogWidth == 2

NewInit ==
  /\ PcsIdle
  /\ NewIdle
  /\ ScIdle
  /\ SelIdle
  /\ FldIdle
  /\ MkIdle
  /\ McIdle

\* TensorPCS::new(log_rows, code, n_test_queries) with the type parameters
\* F, FI, FE, P, PI, PE of the given degrees and packing widths.
New ==
  /\ new_args = <<>>
  /\ \E log_rows \in 0 .. MaxLogRows, dim \in 1 .. MaxCodeDim, inv_rate \in 1 .. MaxInvRate,
        deg_I \in 1 .. MaxDegree, deg_E \in 1 .. MaxDegree,
        lP \in 0 .. MaxLogWidth, lPI \in 0 .. MaxLogWidth, lPE \in 0 .. MaxLogWidth :
       LET code == [dim |-> dim, len |-> dim * inv_rate]
       IN  /\ new_args' = [log_rows |-> log_rows, code |-> code, n_test_queries |-> 2,
                           deg_I |-> deg_I, deg_E |-> deg_E,
                           wP |-> Pow2(lP), wPI |-> Pow2(lPI), wPE |-> Pow2(lPE)]
           /\ new_result' = TensorPCS_new(log_rows, code, 2, deg_I, deg_E,
                                          Pow2(lP), Pow2(lPI), Pow2(lPE))
           /\ UNCHANGED <<pcsVars, scVars, selVars, fldVars, mkVars, mcVars>>

NewNext == New

\* The calls of the constructor.
SpecNew == NewInit /\ [][NewNext]_vars

(***************************************************************************)
(* The calls of the parameter selection functions                           *)
(***************************************************************************)

\* The linear codes have a length of 1 .. MaxSelLen and a minimum distance
\* of 1 .. len; security_bits is drawn from 0 .. MaxSecurityBits, log_rows
\* from 0 .. MaxSelLogRows, the number of variables up to MaxSelNVars, the
\* batch size from 1 .. MaxSelPolys and log_inv_rate from 1 .. MaxLogInvRate.
MaxSelLen == 5
MaxSecurityBits == 3
MaxSelLogRows == 3
MaxSelNVars == 6
MaxSelPolys == 2
MaxLogInvRate == 2

SelCodes ==
  UNION { { [dim |-> len - min_dist + 1, len |-> len, min_dist |-> min_dist] :
              min_dist \in 1 .. len } : len \in 1 .. MaxSelLen }

\* The types of test_proof_size: BasicTensorPCS over PackedBinaryField4x32b
\* with the code over PackedBinaryField16x8b and PE = PackedBinaryField1x128b.
Basic4x32b == [levF |-> 5, levA |-> 3, levI |-> 5, levE |-> 7,
               wP |-> 4, wPI |-> 4, wPE |-> 1]

\* Small types: a basic scheme over 4-bit scalars and a block scheme over
\* bits with 2-bit intermediate scalars, both with an 8-bit extension field.
BasicSmall == [levF |-> 2, levA |-> 2, levI |-> 2, levE |-> 3,
               wP |-> 2, wPI |-> 2, wPE |-> 1]
BlockSmall == [levF |-> 0, levA |-> 1, levI |-> 1, levE |-> 3,
               wP |-> 4, wPI |-> 2, wPE |-> 1]

SelTypes == {Basic4x32b, BasicSmall, BlockSmall}

\* The scheme of test_proof_size: log_rows = 8, ReedSolomonCode::new(5, 2),
\* the query count of calculate_n_test_queries_reed_solomon for 100 bits.
TestProofSizePCS ==
  LET rs_code == ReedSolomonCode_new(5, 2, NBits(Basic4x32b.levA)).code[1]
      q == calculate_n_test_queries_reed_solomon(NBits(Basic4x32b.levE), 100, 8, rs_code)
  IN  new_using_groestl_merkle_tree(Basic4x32b, 8, rs_code, q.n_queries)[1]

\* The schemes whose proof size is asked for: the one of the test and the
\* ones FindProofSizeOptimalPcs can construct for one bit of security.
SelSchemes ==
  {TestProofSizePCS} \cup
  { c[1] : c \in UNION { { CandidatePCS(ty, 1, nv, 1, FALSE, log_rows) :
                             log_rows \in 0 .. nv - log2_strict_usize(Degree(ty.levI, ty.levF)) } :
                           ty \in SelTypes, nv \in 0 .. MaxSelNVars } \ {<<>>} }

SelInit ==
  /\ PcsIdle
  /\ NewIdle
  /\ ScIdle
  /\ SelIdle
  /\ FldIdle
  /\ MkIdle
  /\ McIdle

\* calculate_n_test_queries::<F, _>(security_bits, log_rows, code), F of 4 bits.
CalculateNTestQueries ==
  /\ sel_args = <<>>
  /\ \E security_bits \in 0 .. MaxSecurityBits, log_rows \in 0 .. MaxSelLogRows,
        code \in SelCodes :
       /\ sel_args' = [fn |-> "calculate_n_test_queries", n_bits |-> 4,
                       security_bits |-> security_bits, log_rows |-> log_rows,
                       code |-> code]
       /\ sel_result' = calculate_n_test_queries(4, security_bits, log_rows, code)
  /\ UNCHANGED <<pcsVars, newVars, scVars, fldVars, mkVars, mcVars>>

\* calculate_n_test_queries_reed_solomon::<_, FE, _>(security_bits, log_rows,
\* code), FE of 4 bits.
CalculateNTestQueriesReedSolomon ==
  /\ sel_args = <<>>
  /\ \E security_bits \in 0 .. MaxSecurityBits, log_rows \in 0 .. MaxSelLogRows,
        code \in SelCodes :
       /\ sel_args' = [fn |-> "calculate_n_test_queries_reed_solomon", n_bits |-> 4,
                       security_bits |-> security_bits, log_rows |-> log_rows,
                       code |-> code]
       /\ sel_result' = calculate_n_test_queries_reed_solomon(4, security_bits, log_rows,
                                                              code)
  /\ UNCHANGED <<pcsVars, newVars, scVars, fldVars, mkVars, mcVars>>

\* pcs.proof_size(n_polys).
ProofSize ==
  /\ sel_args = <<>>
  /\ \E scheme \in SelSchemes, n_polys \in 1 .. MaxSelPolys :
       /\ sel_args' = [fn |-> "proof_size", pcs |-> scheme, n_polys |-> n_polys]
       /\ sel_result' = proof_size(scheme, n_polys)
  /\ UNCHANGED <<pcsVars, newVars, scVars, fldVars, mkVars, mcVars>>

\* find_proof_size_optimal_pcs(security_bits, n_vars, n_polys, log_inv_rate,
\* conservative_testing) for the types ty; n_vars is at least the log of the
\* degree of F_I over F.
FindProofSizeOptimalPcs ==
  /\ sel_args = <<>>
  /\ \E ty \in SelTypes, security_bits \in 0 .. MaxSecurityBits, nv \in 0 .. MaxSelNVars,
        n_polys \in 1 .. MaxSelPolys, log_inv_rate \in 1 .. MaxLogInvRate,
        conservative_testing \in BOOLEAN :
       /\ nv >= log2_strict_usize(Degree(ty.levI, ty.levF))
       /\ sel_args' = [fn |-> "find_proof_size_optimal_pcs", ty |-> ty,
                       security_bits |-> security_bits, n_vars |-> nv,
                       n_polys |-> n_polys, log_inv_rate |-> log_inv_rate,
                       conservative_testing |-> conservative_testing]
       /\ sel_result' = find_proof_size_optimal_pcs(ty, security_bits, nv, n_polys,
                                                    log_inv_rate, conservative_testing)
  /\ UNCHANGED <<pcsVars, newVars, scVars, fldVars, mkVars, mcVars>>

SelNext ==
  \/ CalculateNTestQueries
  \/ CalculateNTestQueriesReedSolomon
  \/ ProofSize
  \/ FindProofSizeOptimalPcs

\* The calls of the parameter selection functions.
SpecSel == SelInit /\ [][SelNext]_vars

(***************************************************************************)
(* The runs of batch_verify                                                 *)
(***************************************************************************)

\* The runs have 0 .. MaxClaims claims of 0 .. MaxNVars variables each; the
\* prover's messages and the sampler state are generated from the seeds
\* 0 .. MaxTapeSeed.
MaxClaims == 3
MaxNVars == 2
MaxTapeSeed == 3

Identity == [kind |-> "identity", n_vars |-> 1, degree |-> 1]
ProductOfTwo == [kind |-> "product", n_vars |-> 2, degree |-> 2]
SumOfTwo == [kind |-> "sum", n_vars |-> 2, degree |-> 1]
Fallible == [kind |-> "fallible", n_vars |-> 1, degree |-> 1]

\* The claims of the model: over one multilinear with the identity
\* composition, or over two multilinears with their product and their sum.
MakeClaim(v, two) ==
  IF two
  THEN [n_vars |-> v, n_multilinears |-> 2,
        composite_sums |-> <<[composition |-> ProductOfTwo, sum |-> (v + 2) % 4],
                             [composition |-> SumOfTwo, sum |-> 3]>>]
  ELSE [n_vars |-> v, n_multilinears |-> 1,
        composite_sums |-> <<[composition |-> Identity, sum |-> (v + 1) % 4]>>]

\* A claim over one multilinear with a composition whose evaluation fails
\* at zero.
MakeFallibleClaim(v) ==
  [n_vars |-> v, n_multilinears |-> 1,
   composite_sums |-> <<[composition |-> Fallible, sum |-> (v + 3) % 4]>>]

ClaimSet ==
  { MakeClaim(v, two) : v \in 0 .. MaxNVars, two \in BOOLEAN }
    \cup { MakeFallibleClaim(v) : v \in 0 .. MaxNVars }

\* The transcript generated from a seed: the prover's messages are scalars
\* of GF(4), enough of them for every run of the model, except that seed 0
\* gives a tape of two scalars only.
NewTranscript(seed) ==
  [st   |-> (seed * 29 + 1) % 251,
   tape |-> [i \in 1 .. (IF seed = 0 THEN 2 ELSE 2 * MaxNVars + 2 * MaxClaims) |->
               (((seed * 13 + i * 7 + 3) * (seed + i + 1)) % 31) % 4],
   pos  |-> 0,
   log  |-> <<>>]

ScInit ==
  /\ PcsIdle
  /\ NewIdle
  /\ SelIdle
  /\ FldIdle
  /\ MkIdle
  /\ McIdle
  /\ sc_pc = "start"
  /\ claims \in UNION { [1 .. n -> ClaimSet] : n \in 0 .. MaxClaims }
  /\ evaluation_order \in {"LowToHigh", "HighToLow"}
  /\ \E seed \in 0 .. MaxTapeSeed : transcript = NewTranscript(seed)
  /\ round_no = 0
  /\ active_index = 0
  /\ batch_coeffs = <<>>
  /\ challenges = <<>>
  /\ sum = 0
  /\ max_degree = 0
  /\ output = NoOutput

n_rounds == MaxOf([i \in 1 .. Len(claims) |-> claims[i].n_vars])

ScErr(e) == [result |-> e, challenges |-> <<>>, multilinear_evals |-> <<>>]

\* CheckOrder asking for claims in non-decreasing order of n_vars.
CheckOrder_ascending ==
  /\ sc_pc = "start"
  /\ IF ~is_sorted_ascending([i \in 1 .. Len(claims) |-> claims[i].n_vars])
     THEN /\ output' = ScErr("ClaimsOutOfOrder")
          /\ sc_pc' = "done"
     ELSE /\ output' = output
          /\ sc_pc' = "rounds"
  /\ round_no' = 0
  /\ active_index' = 0
  /\ batch_coeffs' = <<>>
  /\ challenges' = <<>>
  /\ sum' = 0
  /\ max_degree' = 0
  /\ UNCHANGED <<claims, evaluation_order, transcript>>
  /\ UNCHANGED <<pcsVars, newVars, selVars, fldVars, mkVars, mcVars>>

\* batch_verify up to its first round: the check of the order of the claims
\* and the initial values of the locals.
CheckOrder ==
  /\ sc_pc = "start"
  /\ IF ~is_sorted_ascending(Reverse([i \in 1 .. Len(claims) |-> claims[i].n_vars]))
     THEN /\ output' = ScErr("ClaimsOutOfOrder")
          /\ sc_pc' = "done"
     ELSE /\ output' = output
          /\ sc_pc' = "rounds"
  /\ round_no' = 0
  /\ active_index' = 0
  /\ batch_coeffs' = <<>>
  /\ challenges' = <<>>
  /\ sum' = 0
  /\ max_degree' = 0
  /\ UNCHANGED <<claims, evaluation_order, transcript>>
  /\ UNCHANGED <<pcsVars, newVars, selVars, fldVars, mkVars, mcVars>>

\* Round taking the claims of a round in one round late: round_no batches in
\* the claims of n_rounds - round_no + 1 variables.
Round_late ==
  /\ sc_pc = "rounds"
  /\ round_no < n_rounds
  /\ LET n_vars_  == n_rounds - round_no + 1
         b        == BatchInClaims(claims,
                       [active_index |-> active_index, batch_coeffs |-> batch_coeffs,
                        sum |-> sum, max_degree |-> max_degree,
                        transcript |-> transcript],
                       n_vars_, FALSE)
         coeffs   == read_scalar_slice(b.transcript, b.max_degree, "round", round_no)
         c        == transcript_sample(coeffs.tr, "challenge", round_no)
         challenge == c.value
     IN  /\ active_index' = b.active_index
         /\ batch_coeffs' = b.batch_coeffs
         /\ max_degree' = b.max_degree
         /\ IF ~coeffs.ok
            THEN /\ transcript' = b.transcript
                 /\ output' = ScErr("TranscriptError")
                 /\ sc_pc' = "done"
                 /\ sum' = b.sum
                 /\ UNCHANGED <<challenges, round_no>>
            ELSE /\ transcript' = c.tr
                 /\ challenges' = Append(challenges, challenge)
                 /\ sum' = interpolate_round_proof(coeffs.values, b.sum, challenge)
                 /\ round_no' = round_no + 1
                 /\ UNCHANGED <<output, sc_pc>>
  /\ UNCHANGED <<claims, evaluation_order>>
  /\ UNCHANGED <<pcsVars, newVars, selVars, fldVars, mkVars, mcVars>>

\* One iteration of `for round_no in 0..n_rounds`.
Round ==
  /\ sc_pc = "rounds"
  /\ round_no < n_rounds
  /\ LET n_vars_  == n_rounds - round_no
         b        == BatchInClaims(claims,
                       [active_index |-> active_index, batch_coeffs |-> batch_coeffs,
                        sum |-> sum, max_degree |-> max_degree,
                        transcript |-> transcript],
                       n_vars_, FALSE)
         coeffs   == read_scalar_slice(b.transcript, b.max_degree, "round", round_no)
         c        == transcript_sample(coeffs.tr, "challenge", round_no)
         challenge == c.value
     IN  /\ active_index' = b.active_index
         /\ batch_coeffs' = b.batch_coeffs
         /\ max_degree' = b.max_degree
         /\ IF ~coeffs.ok
            THEN /\ transcript' = b.transcript
                 /\ output' = ScErr("TranscriptError")
                 /\ sc_pc' = "done"
                 /\ sum' = b.sum
                 /\ UNCHANGED <<challenges, round_no>>
            ELSE /\ transcript' = c.tr
                 /\ challenges' = Append(challenges, challenge)
                 /\ sum' = interpolate_round_proof(coeffs.values, b.sum, challenge)
                 /\ round_no' = round_no + 1
                 /\ UNCHANGED <<output, sc_pc>>
  /\ UNCHANGED <<claims, evaluation_order>>
  /\ UNCHANGED <<pcsVars, newVars, selVars, fldVars, mkVars, mcVars>>

\* Finish returning the challenges as they were sampled, whatever the
\* evaluation order.
Finish_unreversed ==
  /\ sc_pc = "rounds"
  /\ round_no = n_rounds
  /\ LET b == BatchInClaims(claims,
                [active_index |-> active_index, batch_coeffs |-> batch_coeffs,
                 sum |-> sum, max_degree |-> max_degree, transcript |-> transcript],
                0, TRUE)
         reader == ReadEvals(claims, b.transcript, 1)
         multilinear_evals == reader.evals
         expected_sum ==
           compute_expected_batch_composite_evaluation_multi_claim(
             b.batch_coeffs, claims, multilinear_evals)
     IN  /\ active_index' = b.active_index
         /\ batch_coeffs' = b.batch_coeffs
         /\ sum' = b.sum
         /\ transcript' = reader.tr
         /\ output' =
              IF \E i \in active_index + 1 .. Len(claims) : claims[i].n_vars # 0
                THEN ScErr("panic")
              ELSE IF ~reader.ok THEN ScErr("TranscriptError")
              ELSE IF ~expected_sum.ok THEN ScErr("CompositionError")
              ELSE IF b.sum # expected_sum.value THEN ScErr("IncorrectBatchEvaluation")
              ELSE [result            |-> "Ok",
                    challenges        |-> challenges,
                    multilinear_evals |-> multilinear_evals]
  /\ sc_pc' = "done"
  /\ UNCHANGED <<claims, evaluation_order, round_no, challenges, max_degree>>
  /\ UNCHANGED <<pcsVars, newVars, selVars, fldVars, mkVars, mcVars>>

\* batch_verify after its last round.  A claim left over with variables
\* fails the debug assertion.
Finish ==
  /\ sc_pc = "rounds"
  /\ round_no = n_rounds
  /\ LET b == BatchInClaims(claims,
                [active_index |-> active_index, batch_coeffs |-> batch_coeffs,
                 sum |-> sum, max_degree |-> max_degree, transcript |-> transcript],
                0, TRUE)
         reader == ReadEvals(claims, b.transcript, 1)
         multilinear_evals == reader.evals
         expected_sum ==
           compute_expected_batch_composite_evaluation_multi_claim(
             b.batch_coeffs, claims, multilinear_evals)
     IN  /\ active_index' = b.active_index
         /\ batch_coeffs' = b.batch_coeffs
         /\ sum' = b.sum
         /\ transcript' = reader.tr
         /\ output' =
              IF \E i \in active_index + 1 .. Len(claims) : claims[i].n_vars # 0
                THEN ScErr("panic")
              ELSE IF ~reader.ok THEN ScErr("TranscriptError")
              ELSE IF ~expected_sum.ok THEN ScErr("CompositionError")
              ELSE IF b.sum # expected_sum.value THEN ScErr("IncorrectBatchEvaluation")
              ELSE [result            |-> "Ok",
                    challenges        |-> IF evaluation_order = "HighToLow"
                                          THEN Reverse(challenges) ELSE challenges,
                    multilinear_evals |-> multilinear_evals]
  /\ sc_pc' = "done"
  /\ UNCHANGED <<claims, evaluation_order, round_no, challenges, max_degree>>
  /\ UNCHANGED <<pcsVars, newVars, selVars, fldVars, mkVars, mcVars>>

ScNext ==
  \/ CheckOrder
  \/ Round
  \/ Finish

\* The runs of the batched sum-check verifier.
SpecSC == ScInit /\ [][ScNext]_vars

(***************************************************************************)
(* The field machine: one call of one operation of simd_arithmetic.rs      *)
(***************************************************************************)

\* The bytes the lanes of a packed word are drawn from: zero, one, alpha of
\* the byte field, and a byte with every bit set.
SampleBytes == {0, 1, 16, 255}

\* Packed words of two 16-bit elements, four byte lanes.
SampleWords == [1 .. 4 -> SampleBytes]

FldInit ==
  /\ PcsIdle
  /\ NewIdle
  /\ ScIdle
  /\ SelIdle
  /\ FldIdle
  /\ MkIdle
  /\ McIdle

FldCall(args, res) ==
  /\ fld_args' = args
  /\ fld_result' = res
  /\ UNCHANGED <<pcsVars, newVars, scVars, selVars, mkVars, mcVars>>

TowerMultiply ==
  /\ fld_args = <<>>
  /\ \E a \in 0 .. 255, b \in 0 .. 255 :
       FldCall([fn |-> "packed_tower_16x8b_multiply", a |-> a, b |-> b],
               packed_tower_16x8b_multiply(a, b))

TowerSquare ==
  /\ fld_args = <<>>
  /\ \E x \in 0 .. 255 :
       FldCall([fn |-> "packed_tower_16x8b_square", x |-> x],
               packed_tower_16x8b_square(x))

TowerInvertOrZero ==
  /\ fld_args = <<>>
  /\ \E x \in 0 .. 255 :
       FldCall([fn |-> "packed_tower_16x8b_invert_or_zero", x |-> x],
               packed_tower_16x8b_invert_or_zero(x))

TowerMultiplyAlpha ==
  /\ fld_args = <<>>
  /\ \E x \in 0 .. 255 :
       FldCall([fn |-> "packed_tower_16x8b_multiply_alpha", x |-> x],
               packed_tower_16x8b_multiply_alpha(x))

AesInvertOrZero ==
  /\ fld_args = <<>>
  /\ \E x \in 0 .. 255 :
       FldCall([fn |-> "packed_aes_16x8b_invert_or_zero", x |-> x],
               packed_aes_16x8b_invert_or_zero(x))

AesMulAlpha ==
  /\ fld_args = <<>>
  /\ \E x \in 0 .. 255 :
       FldCall([fn |-> "packed_aes_16x8b_mul_alpha", x |-> x],
               packed_aes_16x8b_mul_alpha(x))

AesMultiply ==
  /\ fld_args = <<>>
  /\ \E a \in 0 .. 255, b \in 0 .. 255 :
       FldCall([fn |-> "packed_aes_16x8b_multiply", a |-> a, b |-> b],
               packed_aes_16x8b_multiply(a, b))

IntoAes ==
  /\ fld_args = <<>>
  /\ \E x \in 0 .. 255 :
       FldCall([fn |-> "packed_tower_16x8b_into_aes", x |-> x],
               packed_tower_16x8b_into_aes(x))

IntoTower ==
  /\ fld_args = <<>>
  /\ \E x \in 0 .. 255 :
       FldCall([fn |-> "packed_aes_16x8b_into_tower", x |-> x],
               packed_aes_16x8b_into_tower(x))

TaggedMul ==
  /\ fld_args = <<>>
  /\ \E a \in SampleWords, b \in SampleWords :
       FldCall([fn |-> "TaggedMul::mul", a |-> a, b |-> b], TaggedMul_mul(a, b))

\* The inversion of every 16-bit element, alone in a word, and of the sample
\* words of two elements.
TaggedInvertOrZero ==
  /\ fld_args = <<>>
  /\ \E x \in [1 .. 2 -> 0 .. 255] \cup SampleWords :
       FldCall([fn |-> "TaggedInvertOrZero::invert_or_zero", x |-> x],
               TaggedInvertOrZero_invert_or_zero(x))

FldNext ==
  \/ TowerMultiply
  \/ TowerSquare
  \/ TowerInvertOrZero
  \/ TowerMultiplyAlpha
  \/ AesInvertOrZero
  \/ AesMulAlpha
  \/ AesMultiply
  \/ IntoAes
  \/ IntoTower
  \/ TaggedMul
  \/ TaggedInvertOrZero

SpecFld == FldInit /\ [][FldNext]_vars

(***************************************************************************)
(* The Merkle tree model of crates/m3/tests/merkle_tree.rs, its inclusion  *)
(* statements and their trace over the nodes and roots channels.  A digest *)
(* is a value; compress is the two-to-one compression of the tree.         *)
(***************************************************************************)

\* Trees have 2^0 .. 2^MaxMkDepth leaves, generated from the seeds
\* 0 .. MaxLeafSeed; a run builds up to MaxRoots trees and makes up to
\* MaxStatements inclusion statements.
MaxMkDepth == 2
MaxLeafSeed == 1
MaxRoots == 2
MaxStatements == 2

\* Bitwise OR of two naturals.
RECURSIVE BitOr(_, _)
BitOr(a, b) ==
  IF a = 0 THEN b
  ELSE IF b = 0 THEN a
  ELSE (IF a % 2 = 1 \/ b % 2 = 1 THEN 1 ELSE 0) + 2 * BitOr(a \div 2, b \div 2)

\* The leaf [k; 32].
LeafDigest(k) == [bytes |-> k]

\* The layer loop of MerkleTree::new, from the layer of 2^(i+1) nodes that
\* starts at current_depth_marker down to the root: the parents of a layer
\* follow it in the flattened tree.
RECURSIVE BuildLayers(_, _, _)
BuildLayers(nodes, current_depth_marker, i) ==
  IF i < 0 THEN nodes
  ELSE BuildLayers(
         nodes \o [j \in 1 .. Pow2(i) |->
                     compress(nodes[current_depth_marker + 2 * j - 1],
                              nodes[current_depth_marker + 2 * j])],
         current_depth_marker + Pow2(i + 1), i - 1)

\* nodes of a tree of the given depth, with its root.
TreeOfNodes(depth, nodes) == [depth |-> depth, nodes |-> nodes, root |-> nodes[Len(nodes)]]

\* MerkleTree::new.
MerkleTree_new(leafs) == IF ~IsPowerOfTwo(Len(leafs)) THEN "panic" ELSE TreeOfNodes(log2_strict_usize(Len(leafs)), BuildLayers(leafs, 0, log2_strict_usize(Len(leafs)) - 1))

\* The position in the flattened tree of the sibling read at layer j.
node_index_without_xor(depth, index, j) == BitOr((Pow2(j) - 1) * Pow2(depth + 1 - j), index \div Pow2(j))

node_index(depth, index, j) == BitOr((Pow2(j) - 1) * Pow2(depth + 1 - j), Xor(index \div Pow2(j), 1))

\* MerkleTree::merkle_path.
merkle_path(tree, index) == IF index >= Pow2(tree.depth) THEN "panic" ELSE [j \in 1 .. tree.depth |-> tree.nodes[node_index(tree.depth, index, j - 1) + 1]]

\* The digest reached from current_hash by the siblings i, i + 1, ... of the
\* path: the loop of verify_path.
RECURSIVE PathDigest(_, _, _, _)
PathDigest(current_hash, path, index, i) ==
  IF i >= Len(path) THEN current_hash
  ELSE PathDigest(IF (index \div Pow2(i)) % 2 = 0
                    THEN compress(current_hash, path[i + 1])
                    ELSE compress(path[i + 1], current_hash),
                  path, index, i + 1)

verify_path_any_root(path, root, leaf, index) == IF index >= Pow2(Len(path)) THEN "panic" ELSE "ok"

\* MerkleTree::verify_path: it returns, or an assertion fails.
verify_path(path, root, leaf, index) == IF index >= Pow2(Len(path)) THEN "panic" ELSE IF PathDigest(leaf, path, index, 0) = root THEN "ok" ELSE "panic"

\* A channel: the tokens pushed to it and the tokens pulled from it.
Channel_new == [pushed |-> <<>>, pulled |-> <<>>]

Channel_push(channel, token) == [channel EXCEPT !.pushed = Append(@, token)]

Channel_pull(channel, token) == [channel EXCEPT !.pulled = Append(@, token)]

\* How many times token occurs in tokens.
Multiplicity(tokens, token) == Cardinality({k \in DOMAIN tokens : tokens[k] = token})

\* The tokens a channel has seen.
TokensOf(channel) ==
  {channel.pushed[k] : k \in DOMAIN channel.pushed} \cup
  {channel.pulled[k] : k \in DOMAIN channel.pulled}

\* Channel::is_balanced: every token was pushed as often as it was pulled.
Channel_is_balanced(channel) ==
  \A token \in TokensOf(channel) :
    Multiplicity(channel.pushed, token) = Multiplicity(channel.pulled, token)

\* The pull of MerklePathEvent::fire.
PullChild_both(event, node_channel) ==
  IF event.flush_right
    THEN Channel_pull(node_channel, <<event.root_id, event.right,
                                      event.parent_depth + 1, 2 * event.parent_index + 1>>)
    ELSE IF event.flush_left
      THEN Channel_pull(node_channel, <<event.root_id, event.left,
                                        event.parent_depth + 1, 2 * event.parent_index>>)
      ELSE node_channel

PullChild(event, node_channel) ==
  IF event.flush_left
    THEN Channel_pull(node_channel, <<event.root_id, event.left,
                                      event.parent_depth + 1, 2 * event.parent_index>>)
    ELSE IF event.flush_right
      THEN Channel_pull(node_channel, <<event.root_id, event.right,
                                        event.parent_depth + 1, 2 * event.parent_index + 1>>)
      ELSE node_channel

\* MerklePathEvent::fire.
MerklePathEvent_fire(event, node_channel) == PullChild(event, Channel_push(node_channel, <<event.root_id, event.parent, event.parent_depth, event.parent_index>>))

\* MerkleRootEvent::fire.
MerkleRootEvent_fire(event, channels) == [nodes |-> Channel_pull(channels.nodes, <<event.root_id, event.digest, 0, 0>>), roots |-> Channel_pull(channels.roots, <<event.root_id, event.digest>>)]

\* The event of sibling i of a statement, whose running digest is leaf.
PathEvent(p, leaf, i, left, right) ==
  [root_id |-> p.root_id, left |-> left, right |-> right,
   parent |-> compress(left, right),
   parent_depth |-> Len(p.path) - i - 1,
   parent_index |-> p.index \div Pow2(i + 1),
   flush_left |-> (p.index \div Pow2(i)) % 2 = 0,
   flush_right |-> (p.index \div Pow2(i)) % 2 = 1]

\* The inner loop of MerkleTreeTrace::generate: the events of the siblings
\* i, i + 1, ... of one statement.
RECURSIVE PathEvents(_, _, _)
PathEvents(p, leaf, i) ==
  IF i >= Len(p.path) THEN <<>>
  ELSE IF (p.index \div Pow2(i)) % 2 = 0
    THEN <<PathEvent(p, leaf, i, leaf, p.path[i + 1])>> \o
         PathEvents(p, compress(leaf, p.path[i + 1]), i + 1)
    ELSE <<PathEvent(p, leaf, i, p.path[i + 1], leaf)>> \o
         PathEvents(p, compress(p.path[i + 1], leaf), i + 1)

\* The events of the statements k, k + 1, ...
RECURSIVE AllPathEvents(_, _)
AllPathEvents(paths, k) ==
  IF k > Len(paths) THEN <<>>
  ELSE PathEvents(paths[k], paths[k].leaf, 0) \o AllPathEvents(paths, k + 1)

\* The number of statements that name root i.
root_multiplicities(paths, i) == Cardinality({k \in DOMAIN paths : paths[k].root_id = i})

\* One root event for every root.
RootEvents_once(roots, paths, i) == [k \in 1 .. Len(roots) |-> [root_id |-> k - 1, digest |-> roots[k]]]

\* The root events of the roots i, i + 1, ...: one for every statement that
\* names the root.
RECURSIVE RootEvents(_, _, _)
RootEvents(roots, paths, i) ==
  IF i >= Len(roots) THEN <<>>
  ELSE [k \in 1 .. root_multiplicities(paths, i) |->
          [root_id |-> i, digest |-> roots[i + 1]]] \o
       RootEvents(roots, paths, i + 1)

\* The boundary values of a statement.
MerkleBoundary(roots, p) == [leaf |-> <<p.root_id, p.leaf, Len(p.path), p.index>>, root |-> <<p.root_id, roots[p.root_id + 1]>>]

\* MerkleTreeTrace::generate.
generate(roots, paths) == [boundaries |-> [k \in 1 .. Len(paths) |-> MerkleBoundary(roots, paths[k])], nodes |-> AllPathEvents(paths, 1), root |-> RootEvents(roots, paths, 0)]

\* The loops of validate.
RECURSIVE PushBoundaries(_, _, _)
PushBoundaries(channels, boundaries, k) ==
  IF k > Len(boundaries) THEN channels
  ELSE PushBoundaries([nodes |-> Channel_push(channels.nodes, boundaries[k].leaf),
                       roots |-> Channel_push(channels.roots, boundaries[k].root)],
                      boundaries, k + 1)

RECURSIVE FireRoots(_, _, _)
FireRoots(channels, events, k) ==
  IF k > Len(events) THEN channels
  ELSE FireRoots(MerkleRootEvent_fire(events[k], channels), events, k + 1)

RECURSIVE FireNodes(_, _, _)
FireNodes(channels, events, k) ==
  IF k > Len(events) THEN channels
  ELSE FireNodes([nodes |-> MerklePathEvent_fire(events[k], channels.nodes),
                  roots |-> channels.roots],
                 events, k + 1)

\* The channels at the end of validate, and whether its assertions held.
Validated(channels) ==
  [nodes |-> channels.nodes, roots |-> channels.roots,
   result |-> IF Channel_is_balanced(channels.nodes) /\ Channel_is_balanced(channels.roots)
                THEN "ok" ELSE "panic"]

\* MerkleTreeTrace::validate.
validate(trace) == Validated(FireNodes(FireRoots(PushBoundaries([nodes |-> Channel_new, roots |-> Channel_new], trace.boundaries, 1), trace.root, 1), trace.nodes, 1))

(***************************************************************************)
(* The Merkle machine: trees are built, inclusion statements are made from *)
(* merkle_path, possibly altered, and checked by verify_path; then the     *)
(* trace of the statements is generated and validated.                     *)
(***************************************************************************)

\* The leaves of a tree: [i; 32] for leaf i when the seed is even, one
\* digest for all the leaves when it is odd.
GenLeaves(seed, n) == [i \in 1 .. n |-> LeafDigest((i - 1) * ((seed + 1) % 2) + seed)]

\* The digests an altered field is replaced by.
OtherDigests == {LeafDigest(0), LeafDigest(9)}

\* The statements that differ from p in the leaf, in the index or in one
\* sibling.
Alterations(p) ==
  ({[p EXCEPT !.leaf = d] : d \in OtherDigests} \cup
   {[p EXCEPT !.index = i] : i \in 0 .. 2 * Pow2(Len(p.path)) - 1} \cup
   {[p EXCEPT !.path[j] = d] : j \in DOMAIN p.path, d \in OtherDigests}) \ {p}

\* No assertion has failed.
MkRunning ==
  /\ mk_fired = <<>>
  /\ mk_trace = <<>>
  /\ IF mk_verified = <<>> THEN TRUE ELSE mk_verified.result = "ok"

MkInit ==
  /\ PcsIdle
  /\ NewIdle
  /\ ScIdle
  /\ SelIdle
  /\ FldIdle
  /\ McIdle
  /\ MkIdle

MerkleTreeNew ==
  /\ MkRunning
  /\ mk_paths = <<>>
  /\ Len(mk_trees) < MaxRoots
  /\ \E depth \in 0 .. MaxMkDepth, seed \in 0 .. MaxLeafSeed :
       mk_trees' = Append(mk_trees, [leafs |-> GenLeaves(seed, Pow2(depth)),
                                     tree |-> MerkleTree_new(GenLeaves(seed, Pow2(depth)))])
  /\ UNCHANGED <<mk_paths, mk_altered, mk_verified, mk_trace, mk_channels, mk_fired>>
  /\ UNCHANGED <<pcsVars, newVars, scVars, selVars, fldVars, mcVars>>

\* A statement (root_id, index, leaf, path) made from merkle_path.
MerklePathStatement ==
  /\ MkRunning
  /\ mk_altered = 0
  /\ Len(mk_paths) < MaxStatements
  /\ \E root_id \in 0 .. Len(mk_trees) - 1 :
       \E index \in 0 .. Len(mk_trees[root_id + 1].leafs) - 1 :
         mk_paths' = Append(mk_paths,
                            [root_id |-> root_id, index |-> index,
                             leaf |-> mk_trees[root_id + 1].leafs[index + 1],
                             path |-> merkle_path(mk_trees[root_id + 1].tree, index)])
  /\ UNCHANGED <<mk_trees, mk_altered, mk_verified, mk_trace, mk_channels, mk_fired>>
  /\ UNCHANGED <<pcsVars, newVars, scVars, selVars, fldVars, mcVars>>

\* One statement is replaced by an altered one.
AlterStatement ==
  /\ MkRunning
  /\ mk_altered = 0
  /\ mk_verified = <<>>
  /\ \E k \in DOMAIN mk_paths :
       \E p \in Alterations(mk_paths[k]) :
         /\ mk_paths' = [mk_paths EXCEPT ![k] = p]
         /\ mk_altered' = k
  /\ UNCHANGED <<mk_trees, mk_verified, mk_trace, mk_channels, mk_fired>>
  /\ UNCHANGED <<pcsVars, newVars, scVars, selVars, fldVars, mcVars>>

\* verify_path on a statement and the root the statement names.
VerifyPath ==
  /\ MkRunning
  /\ \E k \in DOMAIN mk_paths :
       mk_verified' =
         [statement |-> k,
          result |-> verify_path(mk_paths[k].path,
                                 mk_trees[mk_paths[k].root_id + 1].tree.root,
                                 mk_paths[k].leaf, mk_paths[k].index)]
  /\ UNCHANGED <<mk_trees, mk_paths, mk_altered, mk_trace, mk_channels, mk_fired>>
  /\ UNCHANGED <<pcsVars, newVars, scVars, selVars, fldVars, mcVars>>

Generate ==
  /\ MkRunning
  /\ mk_trace' = generate([k \in DOMAIN mk_trees |-> mk_trees[k].tree.root], mk_paths)
  /\ UNCHANGED <<mk_trees, mk_paths, mk_altered, mk_verified, mk_channels, mk_fired>>
  /\ UNCHANGED <<pcsVars, newVars, scVars, selVars, fldVars, mcVars>>

Validate ==
  /\ mk_trace # <<>>
  /\ mk_channels = <<>>
  /\ mk_channels' = validate(mk_trace)
  /\ UNCHANGED <<mk_trees, mk_paths, mk_altered, mk_verified, mk_trace, mk_fired>>
  /\ UNCHANGED <<pcsVars, newVars, scVars, selVars, fldVars, mcVars>>

\* The events fired alone: any digests, any position, any flush flags.
SampleEvents ==
  [root_id : 0 .. 1, left : OtherDigests, right : OtherDigests,
   parent : OtherDigests, parent_depth : 0 .. 1, parent_index : 0 .. 1,
   flush_left : BOOLEAN, flush_right : BOOLEAN]

\* One MerklePathEvent fired on an empty nodes channel.
FirePathEvent ==
  /\ MkIdle
  /\ \E event \in SampleEvents :
       mk_fired' = [event |-> event,
                    nodes |-> MerklePathEvent_fire(event, Channel_new)]
  /\ UNCHANGED <<mk_trees, mk_paths, mk_altered, mk_verified, mk_trace, mk_channels>>
  /\ UNCHANGED <<pcsVars, newVars, scVars, selVars, fldVars, mcVars>>

\* One MerkleRootEvent fired on empty channels.
FireRootEvent ==
  /\ MkIdle
  /\ \E root_id \in 0 .. 1, digest \in OtherDigests :
       mk_fired' = [event |-> [root_id |-> root_id, digest |-> digest],
                    channels |-> MerkleRootEvent_fire(
                                   [root_id |-> root_id, digest |-> digest],
                                   [nodes |-> Channel_new, roots |-> Channel_new])]
  /\ UNCHANGED <<mk_trees, mk_paths, mk_altered, mk_verified, mk_trace, mk_channels>>
  /\ UNCHANGED <<pcsVars, newVars, scVars, selVars, fldVars, mcVars>>

MkNext ==
  \/ MerkleTreeNew
  \/ MerklePathStatement
  \/ AlterStatement
  \/ VerifyPath
  \/ Generate
  \/ Validate
  \/ FirePathEvent
  \/ FireRootEvent

SpecMk == MkInit /\ [][MkNext]_vars
(***************************************************************************)
(* MultilinearComposite: a composition polynomial over multilinears.  A     *)
(* multilinear is the sequence of its 2^mu evaluations over GF(4); a        *)
(* composite is a record [composition, n_vars, multilinears].               *)
(***************************************************************************)

\* The multilinears of the calls have 0 .. MaxMcVars variables and are
\* generated from the seeds 0 .. MaxMcSeed; the queries have up to
\* MaxMcQuery scalars; up to MaxMcCalls calls are made one after the other;
\* usize is taken UsizeBits wide.
MaxMcVars == 2
MaxMcSeed == 1
MaxMcQuery == 2
MaxMcCalls == 3
UsizeBits == 16

\* A composition of no variables, the constant 1.
ConstantOne == [kind |-> "constant", n_vars |-> 0, degree |-> 0]

McCompositions == {Identity, ProductOfTwo, ConstantOne}

GenMultilinear(mu, seed) ==
  [i \in 1 .. Pow2(mu) |-> ((seed * 3 + i * 5) * (seed + i)) % 4]

McMultilinears ==
  { GenMultilinear(mu, seed) : mu \in 0 .. MaxMcVars, seed \in 0 .. MaxMcSeed }

McErr(e) == [err |-> e, value |-> <<>>]

\* MultilinearComposite::new checking the number of multilinears only.
MultilinearComposite_new_unchecked_vars(n_vars_, composition, multilinears) ==
  IF composition.n_vars # Len(multilinears)
  THEN McErr("MultilinearCompositeValidation")
  ELSE [err   |-> "Ok",
        value |-> [composition |-> composition, n_vars |-> n_vars_,
                   multilinears |-> multilinears]]

\* MultilinearComposite::new.
MultilinearComposite_new(n_vars_, composition, multilinears) ==
  IF composition.n_vars # Len(multilinears)
  THEN McErr("MultilinearCompositeValidation")
  ELSE IF \E i \in 1 .. Len(multilinears) : MLE_n_vars(multilinears[i]) # n_vars_
  THEN McErr("MultilinearCompositeValidation")
  ELSE [err   |-> "Ok",
        value |-> [composition |-> composition, n_vars |-> n_vars_,
                   multilinears |-> multilinears]]

\* MultilinearComposite::from_multilinear.
from_multilinear(poly) ==
  [err   |-> "Ok",
   value |-> [composition |-> Identity, n_vars |-> MLE_n_vars(poly),
              multilinears |-> <<poly>>]]

\* MultilinearPoly::evaluate_partial_low: the first k variables are fixed, k
\* the length of the query, and a multilinear in the other n_vars - k
\* variables is left; an error when the query is longer than n_vars.
MLE_evaluate_partial_low(evals, q) ==
  IF Len(q) > MLE_n_vars(evals) THEN McErr("IncorrectQuerySize")
  ELSE LET expansion == into_expansion(q)
           w         == Len(expansion)
       IN  [err   |-> "Ok",
            value |-> [c \in 1 .. Len(evals) \div w |->
                         SumSeq([l \in 1 .. w |->
                                   Mul(evals[(c - 1) * w + l], expansion[l])])]]

\* a - b on usize: when b > a the subtraction panics in a build with
\* overflow checks and wraps in a build without.
usize_sub(a, b, overflow_checks) ==
  IF b <= a THEN [err |-> "Ok", value |-> a - b]
  ELSE IF overflow_checks THEN McErr("panic")
  ELSE [err |-> "Ok", value |-> (a - b) % Pow2(UsizeBits)]

\* MultilinearComposite::evaluate_partial_low.
evaluate_partial_low(self, q, overflow_checks) ==
  LET new_multilinears ==
        [i \in 1 .. Len(self.multilinears) |->
           MLE_evaluate_partial_low(self.multilinears[i], q)]
      n == usize_sub(self.n_vars, Len(q), overflow_checks)
  IN  IF \E i \in 1 .. Len(new_multilinears) : new_multilinears[i].err # "Ok"
      THEN McErr("IncorrectQuerySize")
      ELSE IF n.err # "Ok" THEN McErr(n.err)
      ELSE [err   |-> "Ok",
            value |-> [composition |-> self.composition, n_vars |-> n.value,
                       multilinears |-> [i \in 1 .. Len(new_multilinears) |->
                                           new_multilinears[i].value]]]

McInit ==
  /\ PcsIdle
  /\ NewIdle
  /\ ScIdle
  /\ SelIdle
  /\ FldIdle
  /\ MkIdle
  /\ McIdle

McCall(args, res) ==
  /\ mc_args' = args
  /\ mc_result' = res
  /\ UNCHANGED <<pcsVars, newVars, scVars, selVars, fldVars, mkVars>>

\* MultilinearComposite::new(n_vars, composition, multilinears).
McNew ==
  /\ mc_args = <<>>
  /\ \E n_vars_ \in 0 .. MaxMcVars, composition \in McCompositions,
        multilinears \in UNION { [1 .. n -> McMultilinears] : n \in 0 .. 2 } :
       McCall([fn |-> "new", calls |-> 1, n_vars |-> n_vars_,
               composition |-> composition, multilinears |-> multilinears],
              MultilinearComposite_new(n_vars_, composition, multilinears))

\* MultilinearComposite::from_multilinear(poly).
McFromMultilinear ==
  /\ mc_args = <<>>
  /\ \E poly \in McMultilinears :
       McCall([fn |-> "from_multilinear", calls |-> 1, poly |-> poly],
              from_multilinear(poly))

\* composite.evaluate_partial_low(query) on the composite the last call
\* returned.
McEvaluatePartialLow ==
  /\ IF mc_args = <<>> THEN FALSE
     ELSE /\ mc_args.calls < MaxMcCalls
          /\ mc_result.err = "Ok"
  /\ \E q \in UNION { [1 .. k -> 0 .. 3] : k \in 0 .. MaxMcQuery },
        overflow_checks \in BOOLEAN :
       McCall([fn |-> "evaluate_partial_low", calls |-> mc_args.calls + 1,
               self |-> mc_result.value, query |-> q,
               overflow_checks |-> overflow_checks],
              evaluate_partial_low(mc_result.value, q, overflow_checks))

McNext ==
  \/ McNew
  \/ McFromMultilinear
  \/ McEvaluatePartialLow

\* The calls on MultilinearComposite.
SpecMc == McInit /\ [][McNext]_vars

(***************************************************************************)
(* Properties of the Tensor-PCS runs                                        *)
(***************************************************************************)

\* verify_evaluation has returned, on the prover's proof as it was made, the
\* query of the run and one claimed value for each polynomial.
VerifiedProverProof ==
  /\ pc = "verified"
  /\ submitted.proof = proof
  /\ SubmittedQuery = query
  /\ Len(submitted.values) = Len(polys)

\* The values of the entries of a challenger log with the given tag.
RECURSIVE LogValues(_, _)
LogValues(log, tag) ==
  IF log = <<>> THEN <<>>
  ELSE (IF Head(log)[1] = tag THEN <<Head(log)[2]>> ELSE <<>>)
       \o LogValues(Tail(log), tag)

\* The mixing coefficients of the run: the tensor expansion of the mixing
\* challenges, which are the first samples of the verifier.
RunMixingCoefficients ==
  LET n_challenges == log2_ceil_usize(Len(polys))
  IN  SubSeq(into_expansion(SubSeq(LogValues(verify_challenger.log, "sample"),
                                   1, n_challenges)),
             1, Len(polys))

\* The operations of prove_evaluation and verify_evaluation on the
\* challenger in an honest run.
HonestLog(log) ==
  LET n_challenges == log2_ceil_usize(Len(polys))
      n_scalars    == Pow2(log_cols(pcs))
  IN  /\ Len(log) = n_challenges + n_scalars + pcs.n_test_queries
      /\ \A k \in 1 .. Len(log) :
           IF k <= n_challenges
             THEN log[k][1] = "sample" /\ log[k][2] \in FieldOf(pcs.levE)
           ELSE IF k <= n_challenges + n_scalars
             THEN log[k] = <<"observe", proof.mixed_t_prime[k - n_challenges]>>
           ELSE log[k][1] = "sample_bits" /\ log[k][2] \in 0 .. pcs.code.len - 1

\* C1: an honest run verifies: whatever the batch of one or more
\* multilinears and the query, with the prover and the verifier challengers
\* started from the same state, commit, prove_evaluation and
\* verify_evaluation of the true evaluations return Ok, in the basic and in
\* the block schemes.
C1_Completeness ==
  (pc = "verified" /\ submitted.kind = "honest") => result = "Ok"

C1_Witness_Basic ==
  /\ pc = "verified" /\ submitted.kind = "honest" /\ result = "Ok"
  /\ ~IsBlock(pcs) /\ Len(polys) >= 2
  /\ \E i \in 1 .. Len(query) : query[i] # 0

C1_Witness ==
  /\ pc = "verified" /\ submitted.kind = "honest" /\ result = "Ok"
  /\ IsBlock(pcs) /\ Len(polys) >= 2
  /\ \E i \in 1 .. Len(query) : query[i] # 0
  /\ \E i \in 1 .. Len(polys), v \in 1 .. Len(polys[1]) : polys[i][v] # 0

\* The statement C2 as the specification has it: the prover's proof verifies
\* if and only if every claimed value is the true evaluation.
C2_Original ==
  VerifiedProverProof => (result = "Ok" <=> submitted.values = TrueValues)

\* C2: the prover's proof verifies if and only if the claimed values, mixed
\* with the mixing coefficients, give the mixed true evaluations; for a
\* single polynomial, if and only if the claimed value is the true
\* evaluation; the true evaluations always verify, and a rejected vector of
\* values is rejected with IncorrectEvaluation.
C2_MixedValues ==
  VerifiedProverProof =>
    /\ result = "Ok" <=>
         inner_product_unchecked(submitted.values, RunMixingCoefficients)
           = inner_product_unchecked(TrueValues, RunMixingCoefficients)
    /\ Len(polys) = 1 => (result = "Ok" <=> submitted.values = TrueValues)
    /\ submitted.values = TrueValues => result = "Ok"
    /\ result \in {"Ok", "IncorrectEvaluation"}

C2_Witness ==
  /\ VerifiedProverProof
  /\ Len(polys) >= 2
  /\ submitted.values # TrueValues
  /\ result = "Ok"

C2_Witness_Rejected ==
  /\ VerifiedProverProof
  /\ Len(polys) >= 2
  /\ submitted.values # TrueValues
  /\ result = "IncorrectEvaluation"

\* C3: in an honest run the prover and the verifier do the same operations
\* on their challengers: ceil(log2(n_polys)) samples of mixing challenges,
\* then the observation of the 2^log_cols scalars of the mixed t', then
\* n_test_queries samples of log2(code_len) bits; the k-th index of the
\* verifier is the index of the k-th set of columns the prover opened, and
\* the two challengers end in the same state.
C3_SameOperations ==
  /\ pc \in {"proved", "submitted", "verified"} => HonestLog(prove_challenger.log)
  /\ (pc = "verified" /\ submitted.kind = "honest") =>
       /\ HonestLog(verify_challenger.log)
       /\ verify_challenger.log = prove_challenger.log
       /\ verify_challenger = prove_challenger
       /\ LET indices == LogValues(verify_challenger.log, "sample_bits")
          IN  \A k \in 1 .. pcs.n_test_queries, i \in 1 .. Len(polys) :
                proof.vcs_proofs[k].cols[i]
                  = row_slice(pcs, committed.mats[i], indices[k])

C3_Witness ==
  /\ pc = "verified" /\ submitted.kind = "honest"
  /\ Len(polys) = 3
  /\ verify_challenger = prove_challenger
  /\ LET indices == LogValues(verify_challenger.log, "sample_bits")
     IN  Len(indices) = 2 /\ indices[1] # indices[2]

\* The malformed proofs: the kinds of the submissions with a wrong number
\* of openings, a wrong number of columns in an opened set, a column of the
\* wrong length, or a t' of the wrong size.
WrongOpenings == {"drop_opening", "extra_opening"}
WrongColumns == {"drop_column", "extra_column"}
WrongColumnSize == {"short_column", "long_column"}
WrongTPrime == {"short_t_prime", "long_t_prime"}

\* The submitted proof was made of the wrong shape.
Malformed ==
  \/ submitted.kind \in WrongOpenings \cup WrongColumns \cup WrongColumnSize
                          \cup WrongTPrime
  \/ submitted.kind = "compound" /\ HasFault(submitted.k, "shape")

\* The statement C5 as the specification has it: every malformed proof is
\* rejected with PartialEvaluationSize, NumberOfOpeningProofs or
\* OpenedColumnSize.
C5_Original ==
  (pc = "verified"
     /\ submitted.kind \in WrongOpenings \cup WrongColumns \cup WrongColumnSize
                           \cup WrongTPrime)
  => result \in {"PartialEvaluationSize", "NumberOfOpeningProofs", "OpenedColumnSize"}

\* C5: the shape check rejects every malformed proof: a proof with a wrong
\* number of VCS proofs with NumberOfOpeningProofs, a proof with an opened
\* set that has not n_polys columns with NumBatchedMismatchError, a proof
\* with a column whose length is not n_rows / W_I with OpenedColumnSize, and
\* a proof whose mixed t' has not log_n_cols variables with
\* PartialEvaluationSize; check_proof_shape returns nothing else but Ok,
\* which it returns for the proofs of the right shape.
C5_ShapeErrors ==
  /\ pc = "verified" =>
       /\ submitted.kind \in WrongOpenings => result = "NumberOfOpeningProofs"
       /\ submitted.kind \in WrongColumns => result = "NumBatchedMismatchError"
       /\ submitted.kind \in WrongColumnSize => result = "OpenedColumnSize"
       /\ submitted.kind \in WrongTPrime => result = "PartialEvaluationSize"
  /\ pc \in {"submitted", "verified"} =>
       /\ check_proof_shape(pcs, submitted.proof)
            \in {"Ok", "NumberOfOpeningProofs", "NumBatchedMismatchError",
                 "OpenedColumnSize", "PartialEvaluationSize"}
       /\ check_proof_shape(pcs, submitted.proof) = "Ok" <=> ~Malformed

C5_Witness ==
  /\ pc = "verified"
  /\ submitted.kind \in WrongColumns
  /\ result = "NumBatchedMismatchError"

C5_Witness_Sizes ==
  /\ pc = "verified"
  /\ submitted.kind = "short_column"
  /\ submitted.k = 2 /\ submitted.i = 2
  /\ result = "OpenedColumnSize"

\* The commit / prove / verify run of the first concrete scenario: a single
\* multilinear in 4 rows and 2 columns, queried at the all-zero point.
SingleZeroQueryRun ==
  /\ Len(polys) = 1
  /\ pcs.log_rows = 2
  /\ log_cols(pcs) = 1
  /\ \A i \in 1 .. Len(query) : query[i] = 0

C6_Witness_Columns ==
  /\ pc = "verified" /\ SingleZeroQueryRun
  /\ submitted.kind = "flip_t_prime"
  /\ result = "IncorrectPartialEvaluation"

\* The verifier is given the true evaluations of a batch of 3, except
\* values[1], which is its bitwise NOT.
SecondOfThreeNegated ==
  /\ pc = "verified"
  /\ Len(polys) = 3
  /\ submitted.kind = "wrong_value"
  /\ submitted.i = 2
  /\ submitted.k = Pow2(NBits(pcs.levE)) - 1

\* The statement C7 as the specification has it: verify_evaluation fails
\* with IncorrectPartialEvaluation.
C7_Original ==
  SecondOfThreeNegated => result = "IncorrectPartialEvaluation"

\* C7: for a batch of 3 and the prover's proof, when the verifier is given
\* the true evaluations except that values[1] is replaced by its bitwise
\* NOT, verify_evaluation fails with IncorrectEvaluation, unless the mixing
\* coefficient of values[1] is zero, in which case it returns Ok; it never
\* returns IncorrectPartialEvaluation.
C7_NegatedValue ==
  SecondOfThreeNegated =>
    /\ submitted.values[2] = Pow2(NBits(pcs.levE)) - 1 - TrueValues[2]
    /\ result = IF RunMixingCoefficients[2] = 0 THEN "Ok" ELSE "IncorrectEvaluation"

C7_Witness ==
  /\ SecondOfThreeNegated
  /\ result = "IncorrectEvaluation"

C7_Witness_Accepted ==
  /\ SecondOfThreeNegated
  /\ result = "Ok"

(***************************************************************************)
(* Properties of the constructor                                            *)
(***************************************************************************)

\* C4: TensorPCS::new returns an error and constructs nothing when the code
\* length is not a power of two (CodeLengthPowerOfTwoRequired), when the
\* degree of F_I or of F_E over F is not a power of two
\* (ExtensionDegreePowerOfTwoRequired), when the packing width of P or of PI
\* does not divide 2^log_rows (PackingWidthMustDivideNumberOfRows), or when
\* the packing width of PI or of PE does not divide the code dimension
\* (PackingWidthMustDivideCodeDimension), the first of these in this order
\* when several hold; it returns Ok, with the TensorPCS of its arguments,
\* exactly when none holds.
C4_NewErrors ==
  new_args # <<>> =>
    LET a             == new_args
        PowerOfTwo(x) == \E k \in 0 .. 8 : x = 2^k
        Divides(w, x) == \E m \in 1 .. x : m * w = x
        bad_len       == ~PowerOfTwo(a.code.len)
        bad_degree    == ~PowerOfTwo(a.deg_I) \/ ~PowerOfTwo(a.deg_E)
        bad_rows      == ~Divides(a.wP, 2^a.log_rows) \/ ~Divides(a.wPI, 2^a.log_rows)
        bad_dim       == ~Divides(a.wPI, a.code.dim) \/ ~Divides(a.wPE, a.code.dim)
    IN  /\ new_result.err = "Ok" <=> ~(bad_len \/ bad_degree \/ bad_rows \/ bad_dim)
        /\ new_result.err =
             IF bad_len THEN "CodeLengthPowerOfTwoRequired"
             ELSE IF bad_degree THEN "ExtensionDegreePowerOfTwoRequired"
             ELSE IF bad_rows THEN "PackingWidthMustDivideNumberOfRows"
             ELSE IF bad_dim THEN "PackingWidthMustDivideCodeDimension"
             ELSE "Ok"
        /\ new_result.pcs =
             IF new_result.err = "Ok"
             THEN <<[log_rows |-> a.log_rows, n_test_queries |-> a.n_test_queries,
                     code |-> a.code]>>
             ELSE <<>>

C4_Witness ==
  /\ new_args # <<>>
  /\ new_result.err = "PackingWidthMustDivideCodeDimension"
  /\ new_result.pcs = <<>>
  /\ new_args.code.dim % new_args.wPI = 0
  /\ new_args.code.dim % new_args.wPE # 0

C4_Witness_Ok ==
  /\ new_args # <<>>
  /\ new_result.err = "Ok"
  /\ new_args.wPE = 2

(***************************************************************************)
(* Properties of the batched sum-check verifier                             *)
(***************************************************************************)

\* The third components of the entries of the transcript log before
\* position k that have the given operation and purpose.
LoggedBefore(k, op, what) ==
  { transcript.log[m][3] :
      m \in { m \in 1 .. k - 1 : /\ transcript.log[m][1] = op
                                 /\ transcript.log[m][2] = what } }

\* The fourth components, the values, of the entries of the transcript log
\* that have the given operation and purpose, in log order.
RECURSIVE LoggedValues(_, _, _)
LoggedValues(log, op, what) ==
  IF log = <<>> THEN <<>>
  ELSE (IF Head(log)[1] = op /\ Head(log)[2] = what THEN <<Head(log)[4]>> ELSE <<>>)
       \o LoggedValues(Tail(log), op, what)

\* Some claim has fewer variables than the next one.
OutOfOrder == \E i \in 1 .. Len(claims) - 1 : claims[i].n_vars < claims[i + 1].n_vars

\* C8: batch_verify returns ClaimsOutOfOrder whenever the claims are not in
\* non-increasing order of n_vars, before it samples from or reads from the
\* transcript, which is left as it was; claims with equal n_vars next to
\* each other are in order, and claims in order are never rejected with
\* ClaimsOutOfOrder.
C8_ClaimsOutOfOrder ==
  sc_pc \in {"rounds", "done"} =>
    /\ OutOfOrder =>
         /\ sc_pc = "done"
         /\ output.result = "ClaimsOutOfOrder"
         /\ transcript.log = <<>>
         /\ \E seed \in 0 .. MaxTapeSeed : transcript = NewTranscript(seed)
    /\ ~OutOfOrder => output.result # "ClaimsOutOfOrder"

C8_Witness ==
  /\ sc_pc = "done"
  /\ Len(claims) = 2
  /\ claims[1].n_vars = 1 /\ claims[2].n_vars = 2
  /\ output.result = "ClaimsOutOfOrder"
  /\ transcript.log = <<>>

C8_Witness_Equal ==
  /\ sc_pc = "done"
  /\ Len(claims) = 2
  /\ claims[1].n_vars = 2 /\ claims[2].n_vars = 2
  /\ output.result = "Ok"

\* C9: when batch_verify returns Ok, the returned challenges are as many as
\* the greatest n_vars of the claims (none when there are no claims), they
\* are the round challenges in the order they were sampled when the
\* evaluation order is low-to-high and in the reverse order when it is
\* high-to-low, and multilinear_evals has one entry per claim, in claim
\* order, the i-th being the n_multilinears scalars read for claim i.
C9_Output ==
  output.result = "Ok" =>
    LET sampled == LoggedValues(transcript.log, "sample", "challenge")
        read    == LoggedValues(transcript.log, "read", "evals")
    IN  /\ \A i \in 1 .. Len(claims) : claims[i].n_vars <= Len(output.challenges)
        /\ \/ \E i \in 1 .. Len(claims) : claims[i].n_vars = Len(output.challenges)
           \/ claims = <<>> /\ output.challenges = <<>>
        /\ output.challenges =
             IF evaluation_order = "LowToHigh" THEN sampled
             ELSE [r \in 1 .. Len(sampled) |-> sampled[Len(sampled) + 1 - r]]
        /\ Len(output.multilinear_evals) = Len(claims)
        /\ \A i \in 1 .. Len(claims) :
             /\ Len(output.multilinear_evals[i]) = claims[i].n_multilinears
             /\ output.multilinear_evals[i] = read[i]

C9_Witness ==
  /\ output.result = "Ok"
  /\ evaluation_order = "HighToLow"
  /\ Len(claims) >= 2
  /\ Len(output.challenges) = 2
  /\ output.challenges[1] # output.challenges[2]

\* C10: batching is just in time: with N the greatest n_vars, the mixing
\* coefficient of a claim with n variables is sampled when exactly the round
\* messages of the rounds 0 .. N-n-1 have been read and exactly their
\* challenges sampled, hence before the message of round N-n is read, and
\* for a 0-variate claim after all the N rounds; the coefficients are
\* sampled in claim order, one per claim.
C10_JustInTime ==
  LET log       == transcript.log
      N         == n_rounds
      positions == { k \in 1 .. Len(log) :
                       log[k][1] = "sample" /\ log[k][2] = "batch_coeff" }
  IN  /\ \A k \in positions :
           LET i == log[k][3]
               n == claims[i + 1].n_vars
           IN  /\ LoggedBefore(k, "read", "round") = 0 .. N - n - 1
               /\ LoggedBefore(k, "sample", "challenge") = 0 .. N - n - 1
               /\ LoggedBefore(k, "sample", "batch_coeff") = 0 .. i - 1
      /\ output.result \in {"Ok", "IncorrectBatchEvaluation"} =>
           /\ Cardinality(positions) = Len(claims)
           /\ { log[k][3] : k \in positions } = 0 .. Len(claims) - 1

C10_Witness ==
  /\ output.result = "Ok"
  /\ Len(claims) = 3
  /\ claims[1].n_vars = 2 /\ claims[2].n_vars = 1 /\ claims[3].n_vars = 0

\* x to the power e in the field.
RECURSIVE FieldPower(_, _)
FieldPower(x, e) == IF e = 0 THEN 1 ELSE Mul(x, FieldPower(x, e - 1))

\* batch_verify has gone through all its rounds and on to the end.
FinishRan ==
  /\ sc_pc = "done"
  /\ ~OutOfOrder
  /\ round_no = n_rounds

\* The value batch_verify expects of the running sum: the sum over the
\* claims of the compositions at the evaluations read for the claim, the
\* j-th composition weighted by the j-th power of the coefficient sampled
\* for the claim.
ExpectedBatchValue ==
  LET coeffs == LoggedValues(transcript.log, "sample", "batch_coeff")
      evals  == LoggedValues(transcript.log, "read", "evals")
      CompositionAt(c, q) ==
        IF c.kind = "product" THEN Mul(q[1], q[2])
        ELSE IF c.kind = "sum" THEN Add(q[1], q[2])
        ELSE q[1]
  IN  SumSeq([i \in 1 .. Len(claims) |->
        SumSeq([j \in 1 .. Len(claims[i].composite_sums) |->
          Mul(FieldPower(coeffs[i], j),
              CompositionAt(claims[i].composite_sums[j].composition, evals[i]))])])

\* Some composition fails at the evaluations read for its claim.
SomeCompositionFails ==
  LET evals == LoggedValues(transcript.log, "read", "evals")
  IN  \E i \in 1 .. Len(claims) :
        \E j \in 1 .. Len(claims[i].composite_sums) :
          /\ claims[i].composite_sums[j].composition.kind = "fallible"
          /\ evals[i][1] = 0

\* C11: after all the rounds and the reading of the claimed multilinear
\* evaluations, batch_verify returns IncorrectBatchEvaluation exactly when
\* the running sum differs from the expected value and Ok when they are
\* equal; a transcript read that fails, in a round or of the evaluations,
\* and a composition evaluation that fails are returned as errors instead.
C11_FinalCheck ==
  /\ FinishRan =>
       output.result =
         IF Len(LoggedValues(transcript.log, "read", "evals")) < Len(claims)
           THEN "TranscriptError"
         ELSE IF SomeCompositionFails THEN "CompositionError"
         ELSE IF sum # ExpectedBatchValue THEN "IncorrectBatchEvaluation"
         ELSE "Ok"
  /\ (sc_pc = "done" /\ ~OutOfOrder /\ round_no < n_rounds) =>
       output.result = "TranscriptError"

C11_Witness ==
  /\ FinishRan
  /\ Len(claims) >= 2
  /\ claims[1].n_vars = 2
  /\ output.result = "IncorrectBatchEvaluation"

C11_Witness_Composition ==
  /\ FinishRan
  /\ output.result = "CompositionError"

C11_Witness_Read ==
  /\ FinishRan
  /\ output.result = "TranscriptError"

(***************************************************************************)
(* Claims on the parameter selection                                        *)
(***************************************************************************)

SelCalled(fn) == sel_args # <<>> /\ sel_args.fn = fn

\* C12: proof_size(n_polys) is t_prime_size + (n_polys * column_size +
\* vcs.proof_size(n_polys)) * n_test_queries with t_prime_size = sizeof(PE) *
\* 2^log_cols / W_PE and column_size = sizeof(PI) * 2^log_rows / W_PI; for
\* the scheme of test_proof_size (4x32-bit packing, log_rows = 8, the
\* Reed-Solomon code of log dimension 5 and log inverse rate 2, the query
\* count for 100 bits of security), proof_size(1) = 182720 and
\* proof_size(2) = 332224.
C12_ProofSize ==
  SelCalled("proof_size") =>
    LET s            == sel_args.pcs
        n_polys      == sel_args.n_polys
        sizeof_PE    == (s.wPE * Pow2(s.levE)) \div 8
        sizeof_PI    == (s.wPI * Pow2(s.levI)) \div 8
        the_log_cols == log2_strict_usize(s.code.dim) + (s.levI - s.levF)
        t_prime_size == (sizeof_PE * Pow2(the_log_cols)) \div s.wPE
        column_size  == (sizeof_PI * Pow2(s.log_rows)) \div s.wPI
        path_size    == 32 * log2_strict_usize(s.code.len)
    IN  /\ sel_result = t_prime_size + (n_polys * column_size + path_size) * s.n_test_queries
        /\ (/\ s.levF = 5 /\ s.levI = 5 /\ s.levE = 7 /\ s.wPI = 4 /\ s.wPE = 1
            /\ s.log_rows = 8 /\ s.code.dim = Pow2(5) /\ s.code.len = Pow2(5 + 2))
           => /\ s.n_test_queries = 146
              /\ n_polys = 1 => sel_result = 182720
              /\ n_polys = 2 => sel_result = 332224

C12_Witness ==
  /\ SelCalled("proof_size")
  /\ sel_args.pcs = TestProofSizePCS
  /\ sel_args.n_polys = 2
  /\ sel_result = 332224

C12_Witness_One ==
  /\ SelCalled("proof_size")
  /\ sel_args.pcs.log_rows = 8
  /\ sel_args.n_polys = 1
  /\ sel_result = 182720

QueriesCalled ==
  SelCalled("calculate_n_test_queries") \/ SelCalled("calculate_n_test_queries_reed_solomon")

\* The error bound of the call for q queries.
QueryBound(q) ==
  IF sel_args.fn = "calculate_n_test_queries_reed_solomon"
  THEN calculate_error_bound_reed_solomon(sel_args.n_bits, sel_args.log_rows, sel_args.code, q)
  ELSE calculate_error_bound(sel_args.n_bits, sel_args.log_rows, sel_args.code, q)

\* non_proximal_per_query_err of the call as a fraction <<numerator, denominator>>.
NonProximal ==
  IF sel_args.fn = "calculate_n_test_queries_reed_solomon"
  THEN <<2 * sel_args.code.len - sel_args.code.min_dist, 2 * sel_args.code.len>>
  ELSE <<3 * sel_args.code.len - sel_args.code.min_dist, 3 * sel_args.code.len>>

\* non_proximal_per_query_err^q <= 2^-security_bits.
NonProximalReaches(q) ==
  BigLeq(BigShl(BigPow(NonProximal[1], q), sel_args.security_bits), BigPow(NonProximal[2], q))

\* q0 = ceil(security_bits / -log2(non_proximal)).
FirstCandidate == InitialQueries(sel_args.security_bits, NonProximal[1], NonProximal[2])

Sufficient(from, to) == { q \in from .. to : QueryBound(q) >= sel_args.security_bits }

\* The result of the call is the first of the candidates from .. to that
\* suffices, and ParameterError when none does.
ReturnsFirstOf(from, to) ==
  IF Sufficient(from, to) = {} THEN ~sel_result.ok
  ELSE /\ sel_result.ok
       /\ sel_result.n_queries \in Sufficient(from, to)
       /\ \A q \in Sufficient(from, to) : sel_result.n_queries <= q

\* C19 as stated: the candidates are q0, q0 + 1, ..., q0 + 10.
C19_Original ==
  QueriesCalled => ReturnsFirstOf(FirstCandidate, FirstCandidate + 10)

\* C19: calculate_n_test_queries and its Reed-Solomon variant start from q0 =
\* ceil(security_bits / -log2(non_proximal)) and return the first q among the
\* ten candidates q0, ..., q0 + 9 whose error bound is at least
\* security_bits, which is the least q of all whose bound is; they return
\* ParameterError exactly when none of the ten suffices.
C19_TenCandidates ==
  QueriesCalled =>
    /\ NonProximalReaches(FirstCandidate)
    /\ FirstCandidate > 0 => ~NonProximalReaches(FirstCandidate - 1)
    /\ ReturnsFirstOf(FirstCandidate, FirstCandidate + 9)
    /\ sel_result.ok =>
         \A q \in 0 .. sel_result.n_queries - 1 : QueryBound(q) < sel_args.security_bits

\* ParameterError although the candidate after the tenth increment suffices.
C19_Witness ==
  /\ QueriesCalled
  /\ ~sel_result.ok
  /\ QueryBound(FirstCandidate + 10) >= sel_args.security_bits

C19_Witness_Incremented ==
  /\ QueriesCalled
  /\ sel_result.ok
  /\ sel_result.n_queries > FirstCandidate + 4

\* The scheme of the call of find_proof_size_optimal_pcs for log_rows, or none.
Candidate(log_rows) ==
  CandidatePCS(sel_args.ty, sel_args.security_bits, sel_args.n_vars, sel_args.log_inv_rate,
               sel_args.conservative_testing, log_rows)

\* The values of log_rows the call iterates over that give a scheme.
Feasible ==
  { log_rows \in 0 .. sel_args.n_vars - (sel_args.ty.levI - sel_args.ty.levF) :
      Candidate(log_rows) # <<>> }

CandidateSize(log_rows) == proof_size(Candidate(log_rows)[1], sel_args.n_polys)

C20_Witness_None ==
  /\ SelCalled("find_proof_size_optimal_pcs")
  /\ sel_args.n_vars > 2
  /\ sel_result = <<>>

C20_Witness_Inner ==
  /\ SelCalled("find_proof_size_optimal_pcs")
  /\ sel_result # <<>>
  /\ \E lo \in Feasible : lo < sel_result[1].log_rows
  /\ \E hi \in Feasible : hi > sel_result[1].log_rows

(***************************************************************************)
(* Claims about the byte-level field arithmetic                            *)
(***************************************************************************)

FldCalled(fn) == fld_args # <<>> /\ fld_args.fn = fn

\* The sum of the two logarithms of the operands of a multiplication.
LogSum == lookup_16x8b(TOWER_LOG_LOOKUP_TABLE, fld_args.a)
            + lookup_16x8b(TOWER_LOG_LOOKUP_TABLE, fld_args.b)

\* C13: the byte-level tower multiplication, lane by lane, satisfies the
\* field laws on all bytes: the product x*y of a call equals y*x; for every
\* byte z, (x*y)*z = x*(y*z) and x*(y XOR z) = (x*y) XOR (x*z); 1*y = y; and
\* x*y = 0 exactly when x = 0 or y = 0.  (The products and sums with z are
\* read from the rows of MulTable and XorTable for x, y and x*y.)
C13_FieldLaws ==
  FldCalled("packed_tower_16x8b_multiply") =>
    LET x == fld_args.a
        y == fld_args.b
        xy == fld_result
        x_times == MulTable[x + 1]
        y_times == MulTable[y + 1]
        xy_times == MulTable[xy + 1]
        y_xor == XorTable[y + 1]
        xy_xor == XorTable[xy + 1]
    IN  /\ xy = packed_tower_16x8b_multiply(y, x)
        /\ \A z \in 0 .. 255 :
             /\ xy_times[z + 1] = x_times[y_times[z + 1] + 1]
             /\ x_times[y_xor[z + 1] + 1] = xy_xor[x_times[z + 1] + 1]
        /\ (x = 1 => xy = y)
        /\ (xy = 0 <=> (x = 0 \/ y = 0))

\* A product of two nonzero bytes whose logarithms add up to more than 255,
\* so that the 8-bit sum wraps and is corrected.
C13_Witness ==
  /\ FldCalled("packed_tower_16x8b_multiply")
  /\ fld_args.a # 0
  /\ fld_args.b # 0
  /\ LogSum > 255
  /\ fld_result \notin {0, 1}

\* A product with a zero operand.
C13_Witness_Zero ==
  /\ FldCalled("packed_tower_16x8b_multiply")
  /\ fld_args.a = 0
  /\ fld_args.b > 1
  /\ fld_result = 0

\* C14: byte-level inversion: invert_or_zero maps 0 to 0 and every nonzero
\* byte x to a byte whose tower product with x is 1; the inversion of the AES
\* field does the same with the product of the AES field.
C14_Inverse ==
  /\ FldCalled("packed_tower_16x8b_invert_or_zero") =>
       IF fld_args.x = 0 THEN fld_result = 0
       ELSE packed_tower_16x8b_multiply(fld_args.x, fld_result) = 1
  /\ FldCalled("packed_aes_16x8b_invert_or_zero") =>
       IF fld_args.x = 0 THEN fld_result = 0
       ELSE packed_aes_16x8b_multiply(fld_args.x, fld_result) = 1

\* The inverse of a byte that is not its own inverse, in the tower field.
C14_Witness ==
  /\ FldCalled("packed_tower_16x8b_invert_or_zero")
  /\ fld_args.x > 1
  /\ fld_result \notin {0, 1, fld_args.x}

\* The same in the AES field.
C14_Witness_Aes ==
  /\ FldCalled("packed_aes_16x8b_invert_or_zero")
  /\ fld_args.x > 1
  /\ fld_result \notin {0, 1, fld_args.x}

\* The inversion of zero, in both fields.
C14_Witness_Zero ==
  /\ FldCalled("packed_tower_16x8b_invert_or_zero")
  /\ fld_args.x = 0
  /\ fld_result = 0

C14_Witness_Aes_Zero ==
  /\ FldCalled("packed_aes_16x8b_invert_or_zero")
  /\ fld_args.x = 0
  /\ fld_result = 0

\* x^k in the byte-level field: the product of k copies of x.
RECURSIVE Power(_, _)
Power(x, k) ==
  IF k = 0 THEN 1
  ELSE IF k = 1 THEN x
  ELSE packed_tower_16x8b_multiply(Power(x, k \div 2), Power(x, k - k \div 2))

\* The generator of the byte-level field and its powers g^0 .. g^255.
Generator == lookup_16x8b(TOWER_EXP_LOOKUP_TABLE, 1)
GeneratorPowers == [k \in 1 .. 256 |-> Power(Generator, k - 1)] \o <<>>
GeneratorPower(k) == GeneratorPowers[k + 1]

\* C15: g = TOWER_EXP_LOOKUP_TABLE[1] has order exactly 255 (g^255 = 1 and
\* g^k # 1 for 1 <= k < 255), g^k is TOWER_EXP_LOOKUP_TABLE[k], the logarithm
\* table inverts the exponential table on the nonzero bytes, and the inversion
\* of g^k returns g^(255-k) for every k in 0 .. 255.
C15_Generator ==
  FldCalled("packed_tower_16x8b_invert_or_zero") =>
    LET x == fld_args.x
    IN  /\ GeneratorPower(255) = 1
        /\ \A k \in 1 .. 254 : GeneratorPower(k) # 1
        /\ \A k \in 0 .. 255 : GeneratorPower(k) = lookup_16x8b(TOWER_EXP_LOOKUP_TABLE, k)
        /\ x # 0 => lookup_16x8b(TOWER_EXP_LOOKUP_TABLE,
                                 lookup_16x8b(TOWER_LOG_LOOKUP_TABLE, x)) = x
        /\ \A k \in 0 .. 255 : GeneratorPower(k) = x => fld_result = GeneratorPower(255 - k)
        /\ x # 0 => \E k \in 0 .. 254 : GeneratorPower(k) = x

\* The inversion of a power g^k that is neither 1 nor g.
C15_Witness ==
  /\ FldCalled("packed_tower_16x8b_invert_or_zero")
  /\ \E k \in 2 .. 253 :
       /\ fld_args.x = GeneratorPower(k)
       /\ fld_result = GeneratorPower(255 - k)
       /\ fld_result # fld_args.x

\* The inversion of g^0 = g^255 = 1.
C15_Witness_One ==
  /\ FldCalled("packed_tower_16x8b_invert_or_zero")
  /\ fld_args.x = GeneratorPower(0)
  /\ fld_args.x = GeneratorPower(255)
  /\ fld_result = 1

\* C16: the square of the byte level is the product of the byte with itself:
\* for every byte x, the square table at x is packed_tower_16x8b_multiply of
\* (x, x).
C16_Square ==
  FldCalled("packed_tower_16x8b_square") =>
    fld_result = packed_tower_16x8b_multiply(fld_args.x, fld_args.x)

\* The square of a byte outside the subfield GF(16), different from the byte.
C16_Witness ==
  /\ FldCalled("packed_tower_16x8b_square")
  /\ fld_args.x > 15
  /\ fld_result \notin {0, 1, fld_args.x}

\* A product of a byte with itself equals the entry of the square table.
C16_Witness_Product ==
  /\ FldCalled("packed_tower_16x8b_multiply")
  /\ fld_args.a = fld_args.b
  /\ fld_args.a > 15
  /\ fld_result = packed_tower_16x8b_square(fld_args.a)

\* The remainder of the polynomial c, of degree at most i, modulo
\* x^8 + x^4 + x^3 + x + 1 (0x11B).
RECURSIVE ReduceAes(_, _)
ReduceAes(c, i) ==
  IF i < 8 THEN c
  ELSE ReduceAes(IF (c \div Pow2(i)) % 2 = 1 THEN Xor16(c, 283 * Pow2(i - 8)) ELSE c, i - 1)

\* The product of GF(2^8) modulo x^8 + x^4 + x^3 + x + 1.
AesFieldProduct(a, b) == ReduceAes(vmull_p8(a, b), 14)

\* C17: the conversion between the tower field and the AES field is a
\* bijective, XOR-linear and multiplicative isomorphism: the two tables are
\* inverse to each other, each maps the XOR of two bytes to the XOR of their
\* images, the image of a tower product is the AES-field product of the
\* images (the product of GF(2^8) modulo x^8+x^4+x^3+x+1, which is what
\* packed_aes_16x8b_multiply computes), and packed_aes_16x8b_mul_alpha
\* corresponds to the table of products with alpha.
C17_Isomorphism ==
  /\ FldCalled("packed_tower_16x8b_into_aes") =>
       /\ packed_aes_16x8b_into_tower(fld_result) = fld_args.x
       /\ \A z \in 0 .. 255 :
            packed_tower_16x8b_into_aes(Add(fld_args.x, z))
              = Add(fld_result, packed_tower_16x8b_into_aes(z))
  /\ FldCalled("packed_aes_16x8b_into_tower") =>
       /\ packed_tower_16x8b_into_aes(fld_result) = fld_args.x
       /\ \A z \in 0 .. 255 :
            packed_aes_16x8b_into_tower(Add(fld_args.x, z))
              = Add(fld_result, packed_aes_16x8b_into_tower(z))
  /\ FldCalled("packed_tower_16x8b_multiply") =>
       packed_tower_16x8b_into_aes(fld_result)
         = packed_aes_16x8b_multiply(packed_tower_16x8b_into_aes(fld_args.a),
                                     packed_tower_16x8b_into_aes(fld_args.b))
  /\ FldCalled("packed_aes_16x8b_multiply") =>
       /\ fld_result = AesFieldProduct(fld_args.a, fld_args.b)
       /\ packed_aes_16x8b_into_tower(fld_result)
            = packed_tower_16x8b_multiply(packed_aes_16x8b_into_tower(fld_args.a),
                                          packed_aes_16x8b_into_tower(fld_args.b))
  /\ FldCalled("packed_aes_16x8b_mul_alpha") =>
       fld_result = packed_tower_16x8b_into_aes(
                      packed_tower_16x8b_multiply_alpha(packed_aes_16x8b_into_tower(fld_args.x)))
  /\ FldCalled("packed_tower_16x8b_multiply_alpha") =>
       packed_tower_16x8b_into_aes(fld_result)
         = packed_aes_16x8b_mul_alpha(packed_tower_16x8b_into_aes(fld_args.x))

\* A tower product of two bytes that the conversion moves, whose image is the
\* AES-field product of the images.
C17_Witness ==
  /\ FldCalled("packed_tower_16x8b_multiply")
  /\ packed_tower_16x8b_into_aes(fld_args.a) \notin {0, 1, fld_args.a}
  /\ packed_tower_16x8b_into_aes(fld_args.b) \notin {0, 1, fld_args.b}
  /\ packed_tower_16x8b_into_aes(fld_result) # fld_result
  /\ packed_tower_16x8b_into_aes(fld_result)
       = AesFieldProduct(packed_tower_16x8b_into_aes(fld_args.a),
                         packed_tower_16x8b_into_aes(fld_args.b))

\* A byte that the conversion moves and the inverse conversion brings back.
C17_Witness_Conversion ==
  /\ FldCalled("packed_tower_16x8b_into_aes")
  /\ fld_result # fld_args.x
  /\ packed_aes_16x8b_into_tower(fld_result) = fld_args.x

\* The product of a byte with 0xD3 in the AES field, and the image of the
\* product with alpha in the tower field.
C17_Witness_Alpha ==
  /\ FldCalled("packed_aes_16x8b_mul_alpha")
  /\ fld_args.x > 1
  /\ fld_result = AesFieldProduct(fld_args.x, packed_tower_16x8b_into_aes(16))

\* The two halves of a byte: a = Lo(a) + Hi(a) * X with X = 0x10.
Lo(a) == a % 16
Hi(a) == a \div 16

\* The product (a0 + a1 X)(b0 + b1 X) as the specification writes it, as the
\* pair of its constant term and its coefficient of X.
StatedProduct(a0, a1, b0, b1, alpha) ==
  << Add(Mul(a0, b0), Mul(Mul(a1, b1), alpha)),
     Add(Mul(Add(a0, a1), Add(b0, b1)), Mul(a0, b0)) >>

\* The product of the tower with X^2 = alpha * X + 1.
TowerProduct(a0, a1, b0, b1, alpha) ==
  << Add(Mul(a0, b0), Mul(a1, b1)),
     Add(Add(Mul(Add(a0, a1), Add(b0, b1)), Mul(a0, b0)),
         Add(Mul(a1, b1), Mul(Mul(a1, b1), alpha))) >>

\* The element of index i (from 1) of a packed word of 16-bit elements.
Element(w, i) == << w[2 * i - 1], w[2 * i] >>

\* C18 as stated: with some alpha of the subfield, every byte product is
\* (a0 b0 + a1 b1 alpha) + ((a0 + a1)(b0 + b1) + a0 b0) X on the 4-bit halves,
\* and so is every element of a packed product on its byte halves.
C18_Original ==
  /\ FldCalled("packed_tower_16x8b_multiply") =>
       \E alpha \in 0 .. 15 :
         << Lo(fld_result), Hi(fld_result) >>
           = StatedProduct(Lo(fld_args.a), Hi(fld_args.a),
                           Lo(fld_args.b), Hi(fld_args.b), alpha)
  /\ FldCalled("TaggedMul::mul") =>
       \E alpha \in 0 .. 255 :
         \A i \in 1 .. Len(fld_result) \div 2 :
           Element(fld_result, i)
             = StatedProduct(fld_args.a[2 * i - 1], fld_args.a[2 * i],
                             fld_args.b[2 * i - 1], fld_args.b[2 * i], alpha)

\* C18: multiplication in F_k on pairs (a0, a1) of F_(k-1) satisfies
\* (a0 + a1 X)(b0 + b1 X) = (a0 b0 + a1 b1)
\*                          + ((a0 + a1)(b0 + b1) + a0 b0 + a1 b1 + a1 b1 alpha) X,
\* that is X^2 = alpha X + 1: at the byte level on the 4-bit halves with
\* alpha = 4, where the table of products with alpha multiplies by X = 0x10,
\* and in every element of the packed multiplication above the byte level on
\* the byte halves with alpha = 0x10, the product with alpha read from that
\* table.
C18_TowerProduct ==
  /\ FldCalled("packed_tower_16x8b_multiply") =>
       << Lo(fld_result), Hi(fld_result) >>
         = TowerProduct(Lo(fld_args.a), Hi(fld_args.a), Lo(fld_args.b), Hi(fld_args.b), 4)
  /\ FldCalled("packed_tower_16x8b_multiply_alpha") =>
       /\ fld_result = packed_tower_16x8b_multiply(fld_args.x, 16)
       /\ << Lo(fld_result), Hi(fld_result) >>
            = TowerProduct(Lo(fld_args.x), Hi(fld_args.x), 0, 1, 4)
  /\ FldCalled("TaggedMul::mul") =>
       /\ Len(fld_result) = Len(fld_args.a)
       /\ \A i \in 1 .. Len(fld_result) \div 2 :
            LET a0 == fld_args.a[2 * i - 1]
                a1 == fld_args.a[2 * i]
                b0 == fld_args.b[2 * i - 1]
                b1 == fld_args.b[2 * i]
            IN  /\ Element(fld_result, i) = TowerProduct(a0, a1, b0, b1, 16)
                /\ Element(fld_result, i)[2]
                     = Add(Add(Mul(Add(a0, a1), Add(b0, b1)), Mul(a0, b0)),
                           Add(Mul(a1, b1), packed_tower_16x8b_multiply_alpha(Mul(a1, b1))))

\* A packed product in which both elements have nonzero upper halves on both
\* sides, so that the term with alpha is present, and differ from each other.
C18_Witness ==
  /\ FldCalled("TaggedMul::mul")
  /\ \A i \in 1 .. 2 : Mul(fld_args.a[2 * i], fld_args.b[2 * i]) > 1
  /\ Element(fld_args.a, 1) # Element(fld_args.a, 2)
  /\ Element(fld_result, 1) # Element(fld_result, 2)
  /\ \A i \in 1 .. 4 : fld_result[i] # 0

\* The square of X = 0x10 at the byte level: X^2 = 4 X + 1 = 0x41.
C18_Witness_Byte ==
  /\ FldCalled("packed_tower_16x8b_multiply")
  /\ fld_args.a = 16
  /\ fld_args.b = 16
  /\ fld_result = 65

\* The exponent the multiplication reads the exponential table at: the sum
\* of the logarithms loga and logb in 8 bits, less the all-ones byte when
\* the sum wrapped.
CorrectedExponent(loga, logb) ==
  (((loga + logb) % 256) - (IF loga > (loga + logb) % 256 THEN 255 ELSE 0) + 256) % 256

\* C24: packed_tower_16x8b_multiply returns 0 when an operand is 0 and
\* otherwise g^((log a + log b) mod 255): the logarithms are below 255, the
\* exponent after the 8-bit addition and the overflow correction is
\* log a + log b when that is at most 255 and log a + log b - 255 when the
\* sum wrapped, so it is congruent to log a + log b modulo 255, and the
\* exponential table at that exponent (1 at the exponent 255) is the power
\* of g.
C24_LogExp ==
  FldCalled("packed_tower_16x8b_multiply") =>
    LET loga == lookup_16x8b(TOWER_LOG_LOOKUP_TABLE, fld_args.a)
        logb == lookup_16x8b(TOWER_LOG_LOOKUP_TABLE, fld_args.b)
        logc == CorrectedExponent(loga, logb)
    IN  IF fld_args.a = 0 \/ fld_args.b = 0 THEN fld_result = 0
        ELSE /\ loga \in 0 .. 254
             /\ logb \in 0 .. 254
             /\ logc = IF loga + logb > 255 THEN loga + logb - 255 ELSE loga + logb
             /\ logc % 255 = (loga + logb) % 255
             /\ fld_result = lookup_16x8b(TOWER_EXP_LOOKUP_TABLE, logc)
             /\ fld_result = lookup_16x8b(TOWER_EXP_LOOKUP_TABLE, (loga + logb) % 255)
             /\ fld_result = GeneratorPower((loga + logb) % 255)
             /\ fld_result # 0

\* A product of two bytes other than 1 whose logarithms add up to exactly
\* 255: the exponent is 255 and the product is 1.
C24_Witness ==
  /\ FldCalled("packed_tower_16x8b_multiply")
  /\ fld_args.a > 1
  /\ fld_args.b > 1
  /\ LogSum = 255
  /\ fld_result = 1

\* A product whose logarithms add up to 256: the 8-bit sum is 0, the
\* corrected exponent is 1 and the product is g.
C24_Witness_Wrap ==
  /\ FldCalled("packed_tower_16x8b_multiply")
  /\ fld_args.a # 0
  /\ fld_args.b # 0
  /\ LogSum = 256
  /\ fld_result = Generator

\* A product by 1, whose logarithm is 0: the 8-bit sum is the logarithm of
\* the other operand and is not corrected.
C24_Witness_One ==
  /\ FldCalled("packed_tower_16x8b_multiply")
  /\ fld_args.a > 1
  /\ fld_args.b = 1
  /\ fld_result = fld_args.a

\* The inverse (a0 + a1 alpha + a1 X) * delta^(-1) of a0 + a1 X, as the pair
\* of its constant term and its coefficient of X.
InverseWith(a0, a1, delta) ==
  << Mul(Add(a0, Mul(a1, 16)), packed_tower_16x8b_invert_or_zero(delta)),
     Mul(a1, packed_tower_16x8b_invert_or_zero(delta)) >>

\* Delta as the specification writes it.
StatedDelta(a0, a1) == Add(Add(Mul(a0, a0), Mul(Mul(a0, a1), 16)), Mul(Mul(a1, a1), 16))

\* The norm of a0 + a1 X in the tower with X^2 = alpha X + 1.
NormDelta(a0, a1) == Add(Add(Mul(a0, a0), Mul(Mul(a0, a1), 16)), Mul(a1, a1))

\* C25 as stated: every element of the packed inversion above the byte
\* level is (a0 + a1 alpha + a1 X) * Delta^(-1) with
\* Delta = a0^2 + a0 a1 alpha + a1^2 alpha.
C25_Original ==
  FldCalled("TaggedInvertOrZero::invert_or_zero") =>
    \A i \in 1 .. Len(fld_result) \div 2 :
      Element(fld_result, i)
        = InverseWith(fld_args.x[2 * i - 1], fld_args.x[2 * i],
                      StatedDelta(fld_args.x[2 * i - 1], fld_args.x[2 * i]))

\* C25: the packed inversion above the byte level returns, for every
\* element x = a0 + a1 X of the word, (a0 + a1 alpha + a1 X) * Delta^(-1)
\* with Delta = a0^2 + a0 a1 alpha + a1^2 computed in the byte field and
\* alpha = 0x10; Delta is 0 only for x = 0; the inverse of 0 is 0, and the
\* product of every other x with its inverse, in the tower with
\* X^2 = alpha X + 1 and by the packed multiplication, is 1.
C25_TowerInverse ==
  FldCalled("TaggedInvertOrZero::invert_or_zero") =>
    /\ Len(fld_result) = Len(fld_args.x)
    /\ \A i \in 1 .. Len(fld_result) \div 2 :
         LET a0 == fld_args.x[2 * i - 1]
             a1 == fld_args.x[2 * i]
             r  == Element(fld_result, i)
         IN  /\ r = InverseWith(a0, a1, NormDelta(a0, a1))
             /\ NormDelta(a0, a1) = 0 <=> (a0 = 0 /\ a1 = 0)
             /\ IF a0 = 0 /\ a1 = 0 THEN r = <<0, 0>>
                ELSE /\ TowerProduct(a0, a1, r[1], r[2], 16) = <<1, 0>>
                     /\ Element(TaggedMul_mul(fld_args.x, fld_result), i) = <<1, 0>>

\* A word of two different elements with nonzero halves was inverted, and
\* the specification's Delta differs from the norm on its first element.
C25_Witness ==
  /\ FldCalled("TaggedInvertOrZero::invert_or_zero")
  /\ Len(fld_args.x) = 4
  /\ \A i \in 1 .. 4 : fld_args.x[i] # 0
  /\ Element(fld_args.x, 1) # Element(fld_args.x, 2)
  /\ StatedDelta(fld_args.x[1], fld_args.x[2]) # NormDelta(fld_args.x[1], fld_args.x[2])
  /\ TaggedMul_mul(fld_args.x, fld_result) = <<1, 0, 1, 0>>

\* The element 0 was inverted.
C25_Witness_Zero ==
  /\ FldCalled("TaggedInvertOrZero::invert_or_zero")
  /\ fld_args.x = <<0, 0>>
  /\ fld_result = <<0, 0>>

\* An element of the byte subfield (a1 = 0) other than 0 and 1 was inverted
\* into the inverse of the byte field.
C25_Witness_Subfield ==
  /\ FldCalled("TaggedInvertOrZero::invert_or_zero")
  /\ Len(fld_args.x) = 2
  /\ fld_args.x[1] > 1
  /\ fld_args.x[2] = 0
  /\ fld_result = <<packed_tower_16x8b_invert_or_zero(fld_args.x[1]), 0>>

\* The mixing coefficients of the prover: the first n_polys entries of the
\* tensor expansion of its first ceil(log2(n_polys)) samples.
ProverMixingCoefficients ==
  SubSeq(into_expansion(SubSeq(LogValues(prove_challenger.log, "sample"),
                               1, log2_ceil_usize(Len(polys)))),
         1, Len(polys))

\* The partial evaluations t_i of the polynomials of the run.
RunTPrimes ==
  [i \in 1 .. Len(polys) |->
     evaluate_partial_high(polys[i],
                           into_expansion(SubSeq(query, log_cols(pcs) + 1, Len(query))))]

\* The sum over i of c_i * t_i(v), v the vertex of index v - 1.
MixedAt(c, t, v) == SumSeq([i \in 1 .. Len(t) |-> Mul(c[i], t[i][v])])

\* C23: the t' of prove_evaluation has log_n_cols variables and satisfies
\* t'(v) = sum over i of c_i * t_i(v) at every vertex v, the c_i being the
\* first n_polys entries of the tensor expansion of the ceil(log2(n_polys))
\* challenges sampled first; the verifier samples the same challenges; and
\* when a t_i has not log_n_cols variables, mix_t_primes returns
\* IncorrectPolynomialSize naming log_n_cols.
C23_Mixing ==
  /\ pc \in {"proved", "submitted", "verified"} =>
       /\ Len(ProverMixingCoefficients) = Len(polys)
       /\ Len(proof.mixed_t_prime) = Pow2(log_cols(pcs))
       /\ \A v \in 1 .. Pow2(log_cols(pcs)) :
            proof.mixed_t_prime[v] = MixedAt(ProverMixingCoefficients, RunTPrimes, v)
  /\ (pc = "verified" /\ Len(submitted.values) = Len(polys)) =>
       RunMixingCoefficients = ProverMixingCoefficients
  /\ pc = "prove_failed" =>
       /\ result = "IncorrectPolynomialSize"
       /\ submitted.k = log_cols(pcs)

\* Three polynomials were mixed with coefficients other than 0 and 1 into a
\* t' that is none of the t_i.
C23_Witness ==
  /\ pc = "verified"
  /\ Len(polys) = 3
  /\ \E i \in 1 .. 3 : ProverMixingCoefficients[i] > 1
  /\ \A i \in 1 .. 3 : proof.mixed_t_prime # RunTPrimes[i]
  /\ RunMixingCoefficients = ProverMixingCoefficients

\* prove_evaluation was refused a batch whose second polynomial has one
\* variable less than the others.
C23_Witness_Size ==
  /\ pc = "prove_failed"
  /\ submitted.kind = "short_poly"
  /\ submitted.i = 2
  /\ result = "IncorrectPolynomialSize"

(***************************************************************************)
(* The Merkle tree model and its trace (SpecMk)                             *)
(***************************************************************************)

\* The tree and the leaves statement k names.
TreeOf(k) == mk_trees[mk_paths[k].root_id + 1]

\* Statement k is as merkle_path made it.
Authentic(k) == k # mk_altered

\* C21: a tree over n = 2^d leaves holds 2n - 1 nodes, its root last; for
\* every index i < n, merkle_path(i) has d siblings, the j-th being the node
\* of layer j at position (i >> j) XOR 1, and verify_path accepts the path
\* with the root, the leaf i and the index i.
C21_RoundTrip ==
  /\ \A t \in DOMAIN mk_trees :
       LET n      == Len(mk_trees[t].leafs)
           layers == MerkleLayers(mk_trees[t].leafs)
       IN  /\ Len(mk_trees[t].tree.nodes) = 2 * n - 1
           /\ mk_trees[t].tree.depth = Len(layers) - 1
           /\ mk_trees[t].tree.root = layers[Len(layers)][1]
           /\ mk_trees[t].tree.nodes[2 * n - 1] = mk_trees[t].tree.root
  /\ \A k \in DOMAIN mk_paths :
       Authentic(k) =>
         LET p      == mk_paths[k]
             layers == MerkleLayers(TreeOf(k).leafs)
         IN  /\ Pow2(Len(p.path)) = Len(TreeOf(k).leafs)
             /\ \A j \in 0 .. Len(p.path) - 1 :
                  p.path[j + 1] = layers[j + 1][Xor(p.index \div Pow2(j), 1) + 1]
  /\ mk_verified # <<>> =>
       (Authentic(mk_verified.statement) => mk_verified.result = "ok")

\* verify_path has accepted the path of leaf 2 of a tree of four distinct
\* leaves.
C21_Witness ==
  /\ mk_verified # <<>>
  /\ Authentic(mk_verified.statement)
  /\ mk_verified.result = "ok"
  /\ mk_paths[mk_verified.statement].index = 2
  /\ Len(mk_paths[mk_verified.statement].path) = 2
  /\ TreeOf(mk_verified.statement).leafs[1] # TreeOf(mk_verified.statement).leafs[2]

\* The trace of the statements has been validated.
MkValidated == mk_channels # <<>>

\* Every token of the channel was pushed as often as it was pulled.
PushedAsPulled(channel) ==
  /\ Len(channel.pushed) = Len(channel.pulled)
  /\ \A k \in DOMAIN channel.pushed :
       Multiplicity(channel.pushed, channel.pushed[k]) =
         Multiplicity(channel.pulled, channel.pushed[k])

\* C22: when every statement is the authentic path of its leaf in the tree
\* of its root, generate followed by validate leaves the nodes channel and
\* the roots channel balanced, and no assertion of validate fails: with
\* several statements against one root, with a repeated index, and with
\* several roots.
C22_Balanced ==
  (MkValidated /\ mk_altered = 0) =>
    /\ mk_channels.result = "ok"
    /\ PushedAsPulled(mk_channels.nodes)
    /\ PushedAsPulled(mk_channels.roots)
    /\ Len(mk_trace.boundaries) = Len(mk_paths)
    /\ Len(mk_trace.root) = Len(mk_paths)

\* Two statements of the same leaf of one tree of four leaves were validated.
C22_Witness ==
  /\ MkValidated
  /\ mk_altered = 0
  /\ Len(mk_paths) = 2
  /\ mk_paths[1] = mk_paths[2]
  /\ Len(mk_paths[1].path) = 2
  /\ Len(mk_channels.nodes.pushed) = 6

\* Two statements against two different roots were validated.
C22_Witness_Roots ==
  /\ MkValidated
  /\ mk_altered = 0
  /\ Len(mk_paths) = 2
  /\ mk_paths[1].root_id # mk_paths[2].root_id
  /\ TreeOf(1).tree.root # TreeOf(2).tree.root
  /\ mk_channels.result = "ok"

\* Two statements of different leaves of one tree were validated.
C22_Witness_Paths ==
  /\ MkValidated
  /\ mk_altered = 0
  /\ Len(mk_paths) = 2
  /\ mk_paths[1].root_id = mk_paths[2].root_id
  /\ mk_paths[1].index # mk_paths[2].index
  /\ mk_channels.result = "ok"

\* The digest recomputed along the path of statement k.
Recomputed(k) == PathDigest(mk_paths[k].leaf, mk_paths[k].path, mk_paths[k].index, 0)

\* The token generate pushes at depth 0 for statement k.
TopToken(k) ==
  <<mk_paths[k].root_id, Recomputed(k), 0,
    mk_paths[k].index \div Pow2(Len(mk_paths[k].path))>>

\* The leaf, the index or a sibling of a statement was altered and the
\* digest recomputed along its path is not the root it names.
MkForged == mk_altered # 0 /\ Recomputed(mk_altered) # TreeOf(mk_altered).tree.root

\* C30: when a statement is altered so that the digest recomputed along its
\* path differs from roots[root_id], the nodes channel is not balanced after
\* generate and validate: the token pushed for the recomputed node of depth
\* 0 is never pulled, and the assertion of validate fails.  A MerklePathEvent
\* with no flush flag pushes its parent and pulls nothing; with both flags
\* it pulls the left child only.
C30_Sound ==
  /\ (MkValidated /\ MkForged) =>
       /\ mk_channels.result = "panic"
       /\ ~PushedAsPulled(mk_channels.nodes)
       /\ Multiplicity(mk_channels.nodes.pushed, TopToken(mk_altered)) > 0
       /\ Multiplicity(mk_channels.nodes.pulled, TopToken(mk_altered)) = 0
  /\ (mk_fired # <<>> /\ "nodes" \in DOMAIN mk_fired) =>
       LET e == mk_fired.event
       IN  /\ mk_fired.nodes.pushed =
                << <<e.root_id, e.parent, e.parent_depth, e.parent_index>> >>
           /\ (~e.flush_left /\ ~e.flush_right) => mk_fired.nodes.pulled = <<>>
           /\ (e.flush_left /\ e.flush_right) =>
                mk_fired.nodes.pulled =
                  << <<e.root_id, e.left, e.parent_depth + 1, 2 * e.parent_index>> >>

\* A statement with an altered sibling in a tree of four leaves was
\* validated.
C30_Witness ==
  /\ MkValidated
  /\ MkForged
  /\ Len(mk_paths) = 2
  /\ Len(mk_paths[mk_altered].path) = 2
  /\ mk_paths[mk_altered].path[2] \in OtherDigests
  /\ mk_channels.result = "panic"

\* An event with both flush flags and different children was fired.
C30_Witness_Both ==
  /\ mk_fired # <<>>
  /\ "nodes" \in DOMAIN mk_fired
  /\ mk_fired.event.flush_left
  /\ mk_fired.event.flush_right
  /\ mk_fired.event.left # mk_fired.event.right
  /\ Len(mk_fired.nodes.pulled) = 1

\* An event with no flush flag was fired.
C30_Witness_Neither ==
  /\ mk_fired # <<>>
  /\ "nodes" \in DOMAIN mk_fired
  /\ ~mk_fired.event.flush_left
  /\ ~mk_fired.event.flush_right
  /\ mk_fired.nodes.pulled = <<>>

\* A statement whose index alone was altered was validated with a failed
\* assertion.
C30_Witness_Index ==
  /\ MkValidated
  /\ MkForged
  /\ mk_paths[mk_altered].leaf = TreeOf(mk_altered).leafs[1]
  /\ mk_paths[mk_altered].path = merkle_path(TreeOf(mk_altered).tree, 0)
  /\ mk_paths[mk_altered].index = 1
  /\ mk_channels.result = "panic"

(***************************************************************************)
(* Claims on the rounds of the batched sum-check verifier                   *)
(***************************************************************************)

\* The greatest max_individual_degree of the claims with at least n
\* variables, 0 when there is none.
DegreeOfActive(n) ==
  LET active == { i \in 1 .. Len(claims) : claims[i].n_vars >= n }
  IN  IF active = {} THEN 0
      ELSE CHOOSE d \in { max_individual_degree(claims[i]) : i \in active } :
             \A i \in active : max_individual_degree(claims[i]) <= d

\* The polynomial with the given coefficients, constant term first, at x, as
\* the sum of its monomials.
SumOfMonomials(coeffs, x) ==
  SumSeq([k \in 1 .. Len(coeffs) |-> Mul(coeffs[k], FieldPower(x, k - 1))])

\* The claimed sums of claim i weighted by the powers of the coefficient c,
\* the j-th sum by the j-th power.
WeightedSums(i, c) ==
  SumSeq([j \in 1 .. Len(claims[i].composite_sums) |->
            Mul(FieldPower(c, j), claims[i].composite_sums[j].sum)])

\* The step of round round_no, the transcript operations it performs being
\* the entries its log gains.
RoundStep ==
  LET N         == n_rounds
      old       == Len(transcript.log)
      new       == SubSeq(transcript'.log, old + 1, Len(transcript'.log))
      activated == { i \in 1 .. Len(claims) : claims[i].n_vars = N - round_no }
      k         == Cardinality(activated)
      batched   == Add(sum, SumSeq([m \in 1 .. k |->
                                      WeightedSums(new[m][3] + 1, new[m][4])]))
  IN  /\ SubSeq(transcript'.log, 1, old) = transcript.log
      /\ Len(new) >= k
      /\ \A m \in 1 .. k : /\ new[m][1] = "sample"
                           /\ new[m][2] = "batch_coeff"
                           /\ new[m][3] = active_index + m - 1
                           /\ new[m][3] + 1 \in activated
      /\ max_degree' = DegreeOfActive(N - round_no)
      /\ max_degree' >= max_degree
      /\ IF transcript.pos + max_degree' > Len(transcript.tape)
         THEN /\ Len(new) = k
              /\ output'.result = "TranscriptError"
              /\ transcript'.pos = transcript.pos
         ELSE /\ Len(new) = k + 2
              /\ new[k + 1] = <<"read", "round", round_no,
                                SubSeq(transcript.tape, transcript.pos + 1,
                                       transcript.pos + max_degree')>>
              /\ Len(new[k + 1][4]) = max_degree'
              /\ transcript'.pos = transcript.pos + max_degree'
              /\ new[k + 2][1] = "sample"
              /\ new[k + 2][2] = "challenge"
              /\ new[k + 2][3] = round_no
              /\ challenges' = Append(challenges, new[k + 2][4])
              /\ sum' = SumOfMonomials(recover(new[k + 1][4], batched), new[k + 2][4])
              /\ round_no' = round_no + 1

\* C26: in every round of batch_verify the verifier samples one batching
\* coefficient per claim activated in the round, then reads exactly
\* max_degree round coefficients, then samples one round challenge;
\* max_degree in round r is the greatest max_individual_degree of the claims
\* with at least N - r variables and never decreases; the running sum after
\* the round is the recovered round polynomial at the challenge of the
\* round.  A round whose read fails ends the run after the batching
\* coefficients, with no challenge sampled.
C26_RoundOrder ==
  [][(sc_pc = "rounds" /\ round_no < n_rounds) => RoundStep]_vars

\* Two rounds were gone through, the first with one claim of degree 1
\* activated and the second with two more, one of degree 2.
C26_Witness ==
  /\ sc_pc = "rounds"
  /\ round_no = 2
  /\ Len(claims) = 3
  /\ claims[1].n_vars = 2 /\ claims[2].n_vars = 1 /\ claims[3].n_vars = 1
  /\ max_individual_degree(claims[1]) = 1
  /\ max_degree = 2
  /\ Len(transcript.log) = 7
  /\ Len(transcript.log[2][4]) = 1
  /\ Len(transcript.log[6][4]) = 2
  /\ sum # 0

\* A round ended at its read, the tape having too few scalars left.
C26_Witness_Read ==
  /\ sc_pc = "done"
  /\ output.result = "TranscriptError"
  /\ round_no = 1
  /\ round_no < n_rounds
  /\ transcript.log[Len(transcript.log)][2] = "batch_coeff"

\* The ordering check of batch_verify has passed.
OrderChecked ==
  \/ sc_pc = "rounds"
  \/ sc_pc = "done" /\ output.result # "ClaimsOutOfOrder"

\* The claims with more than n variables.
ClaimsAbove(n) == { i \in 1 .. Len(claims) : claims[i].n_vars > n }

\* What holds of the claims batched in once the ordering check has passed.
BatchedOnce ==
  LET coeff_log == SelectSeq(transcript.log,
                     LAMBDA e : e[1] = "sample" /\ e[2] = "batch_coeff")
  IN  /\ active_index <= Len(claims)
      /\ Len(batch_coeffs) = active_index
      /\ Len(coeff_log) = active_index
      /\ \A i \in 1 .. active_index : /\ coeff_log[i][3] = i - 1
                                      /\ coeff_log[i][4] = batch_coeffs[i]
      /\ sc_pc = "rounds" =>
           /\ 1 .. active_index = ClaimsAbove(n_rounds - round_no)
           /\ round_no = n_rounds =>
                \A i \in active_index + 1 .. Len(claims) : claims[i].n_vars = 0
      /\ sc_pc = "done" =>
           /\ output.result # "panic"
           /\ round_no = n_rounds =>
                /\ active_index = Len(claims)
                /\ Len(batch_coeffs) = Len(claims)
           /\ round_no < n_rounds =>
                1 .. active_index = ClaimsAbove(n_rounds - round_no - 1)
           /\ claims = <<>> =>
                /\ output = [result |-> "Ok", challenges |-> <<>>,
                             multilinear_evals |-> <<>>]
                /\ round_no = 0
                /\ transcript.log = <<>>

\* C29: once the ordering check of batch_verify has passed every claim is
\* batched exactly once: active_index only increases, the claims with
\* n >= 1 variables are taken in round N - n, the claims left to the loop
\* after the rounds have no variables (the debug assertion holds), and at
\* the final check batch_coeffs has one coefficient per claim, the i-th the
\* one sampled for claim i; with no claims there is no round and the result
\* is Ok with no challenges.
C29_BatchedOnce ==
  /\ [](OrderChecked => BatchedOnce)
  /\ [][/\ active_index' >= active_index
        /\ SubSeq(batch_coeffs', 1, Len(batch_coeffs)) = batch_coeffs]_vars

\* The run of three claims of 2, 1 and 0 variables came to its final check
\* with three coefficients.
C29_Witness ==
  /\ sc_pc = "done"
  /\ round_no = n_rounds
  /\ Len(claims) = 3
  /\ claims[1].n_vars = 2 /\ claims[2].n_vars = 1 /\ claims[3].n_vars = 0
  /\ Len(batch_coeffs) = 3
  /\ output.result \in {"Ok", "IncorrectBatchEvaluation"}

\* The run of no claims ended.
C29_Witness_Empty ==
  /\ sc_pc = "done"
  /\ claims = <<>>
  /\ output.result = "Ok"
  /\ output.challenges = <<>>

\* Two claims of no variables each were left to the loop after the rounds.
C29_Witness_Trailing ==
  /\ sc_pc = "done"
  /\ round_no = n_rounds
  /\ Len(claims) = 3
  /\ claims[1].n_vars = 1 /\ claims[2].n_vars = 0 /\ claims[3].n_vars = 0
  /\ active_index = 3

(***************************************************************************)
(* Claims on the order of the checks of verify_evaluation                   *)
(***************************************************************************)

\* The entries of the verifier's challenger log from position a to b.
VerifierLog(a, b) == SubSeq(verify_challenger.log, a, b)

\* Opening k of the submitted proof leads from its columns to the commitment
\* at the given index.
OpeningHolds(k, index) ==
  LET opening == submitted.proof.vcs_proofs[k]
  IN  verify_batch_opening(log2_strict_usize(pcs.code.len), committed.commitment,
                           index, opening.vcs_proof,
                           [i \in 1 .. Len(opening.cols) |-> hash(opening.cols[i])])

\* Some column of opening k of the submitted proof, mixed and evaluated at
\* the row part of the query, is not the entry of the encoding of the
\* submitted t' at the given index.  For the schemes without blocks.
ColumnInconsistent(k, index, mixing) ==
  LET log_n_cols == log_cols(pcs)
      u_prime    == encode_ext(pcs, submitted.proof.mixed_t_prime)
      expansion  == into_expansion(SubSeq(SubmittedQuery, log_n_cols + 1,
                                          Len(SubmittedQuery)))
      cols       == submitted.proof.vcs_proofs[k].cols
  IN  SumSeq([i \in 1 .. Len(cols) |->
                Mul(MLE_evaluate(cols[i], expansion), mixing[i])])
        # u_prime[index + 1]

\* What the verifier's challenger log and the result are after the checks
\* that follow the sampling of the mixing challenges.
AfterMixing(n_challenges) ==
  LET p       == submitted.proof
      log     == verify_challenger.log
      t_prime == p.mixed_t_prime
      mixing  == SubSeq(into_expansion(
                          [j \in 1 .. n_challenges |-> log[j][2]]), 1, p.n_polys)
      value   == SumSeq([i \in 1 .. p.n_polys |-> Mul(submitted.values[i], mixing[i])])
      seen    == n_challenges + Len(t_prime)
      m       == Len(log) - seen
  IN  IF Len(SubmittedQuery) # n_vars(pcs)
      THEN result = "IncorrectQuerySize" /\ Len(log) = n_challenges
      ELSE IF check_proof_shape(pcs, p) # "Ok"
      THEN /\ result \in {"NumberOfOpeningProofs", "NumBatchedMismatchError",
                          "OpenedColumnSize", "PartialEvaluationSize"}
           /\ Len(log) = n_challenges
      ELSE /\ Len(log) >= seen
           /\ VerifierLog(n_challenges + 1, seen) =
                [j \in 1 .. Len(t_prime) |-> <<"observe", t_prime[j]>>]
           /\ IF MLE_evaluate(t_prime,
                   into_expansion(SubSeq(SubmittedQuery, 1, log_cols(pcs)))) # value
              THEN result = "IncorrectEvaluation" /\ m = 0
              ELSE /\ m \in 1 .. Len(p.vcs_proofs)
                   /\ \A j \in 1 .. m : log[seen + j][1] = "sample_bits"
                   /\ \A j \in 1 .. m - 1 : OpeningHolds(j, log[seen + j][2])
                   /\ IF ~OpeningHolds(m, log[seen + m][2])
                      THEN result = "VectorCommit"
                      ELSE /\ m = Len(p.vcs_proofs)
                           /\ result \in {"IncorrectPartialEvaluation", "Ok"}
                           /\ ~IsBlock(pcs) =>
                                (result = "IncorrectPartialEvaluation" <=>
                                   \E j \in 1 .. m :
                                     ColumnInconsistent(j, log[seen + j][2], mixing))

\* C28: verify_evaluation makes its checks in one order and returns the
\* first failure: the number of values against proof.n_polys before any
\* operation of the challenger; then, the mixing challenges sampled, the
\* length of the query and the shape of the proof; then, t' observed, the
\* claimed value (IncorrectEvaluation); then the openings in proof order, an
\* index sampled for each, up to the first that fails (VectorCommit); and
\* the opened columns are compared with u' only when every opening holds, so
\* that a proof with a bad Merkle path and an inconsistent column is
\* rejected with VectorCommit and not with IncorrectPartialEvaluation.
C28_CheckOrder ==
  pc = "verified" =>
    LET n_challenges == log2_ceil_usize(submitted.proof.n_polys)
        log          == verify_challenger.log
    IN  IF Len(submitted.values) # submitted.proof.n_polys
        THEN result = "NumBatchedMismatchError" /\ log = <<>>
        ELSE /\ Len(log) >= n_challenges
             /\ \A j \in 1 .. n_challenges : log[j][1] = "sample"
             /\ AfterMixing(n_challenges)

\* The proof with the path of its last opening changed and, t' being
\* changed, columns that are not those of u' was rejected at the last
\* opening, the first opening having been verified at the index opened.
C28_Witness ==
  /\ pc = "verified"
  /\ submitted.kind = "compound"
  /\ HasFault(submitted.k, "path") /\ HasFault(submitted.k, "t_prime")
  /\ ~HasFault(submitted.k, "values") /\ ~HasFault(submitted.k, "query")
  /\ ~HasFault(submitted.k, "shape")
  /\ LogValues(verify_challenger.log, "sample_bits") =
       LogValues(prove_challenger.log, "sample_bits")
  /\ encode_ext(pcs, submitted.proof.mixed_t_prime) # encode_ext(pcs, proof.mixed_t_prime)
  /\ result = "VectorCommit"

\* The submission with every fault was rejected for the number of its
\* values.
C28_Witness_Values ==
  /\ pc = "verified"
  /\ submitted.kind = "compound"
  /\ \A b \in 1 .. Len(FaultNames) : HasFault(submitted.k, FaultNames[b])
  /\ Len(polys) = 2
  /\ result = "NumBatchedMismatchError"
  /\ verify_challenger.log = <<>>

\* A short query with a proof of the wrong shape and a wrong value.
C28_Witness_Query ==
  /\ pc = "verified"
  /\ submitted.kind = "compound"
  /\ HasFault(submitted.k, "query") /\ HasFault(submitted.k, "shape")
  /\ HasFault(submitted.k, "value")
  /\ Len(polys) = 3
  /\ result = "IncorrectQuerySize"
  /\ Len(verify_challenger.log) = 2

\* A wrong value with a changed path: IncorrectEvaluation, no index sampled.
C28_Witness_Value ==
  /\ pc = "verified"
  /\ submitted.kind = "compound"
  /\ HasFault(submitted.k, "value") /\ HasFault(submitted.k, "path")
  /\ result = "IncorrectEvaluation"
  /\ LogValues(verify_challenger.log, "sample_bits") = <<>>

\* The columns of a changed t' were found inconsistent, every opening
\* holding.
C28_Witness_Columns ==
  /\ pc = "verified"
  /\ submitted.kind = "compound"
  /\ HasFault(submitted.k, "t_prime")
  /\ result = "IncorrectPartialEvaluation"

(***************************************************************************)
(* Claims on MultilinearComposite                                           *)
(***************************************************************************)

\* A call on MultilinearComposite has returned a composite.
McReturned == IF mc_result = <<>> THEN FALSE ELSE mc_result.err = "Ok"

\* The composite has as many multilinears as its composition has variables,
\* each of n_vars variables.
WellFormed(c) ==
  /\ Len(c.multilinears) = c.composition.n_vars
  /\ \A i \in 1 .. Len(c.multilinears) : Len(c.multilinears[i]) = Pow2(c.n_vars)

\* The arguments of new are those of a well-formed composite.
ValidArguments ==
  /\ Len(mc_args.multilinears) = mc_args.composition.n_vars
  /\ \A i \in 1 .. Len(mc_args.multilinears) :
       Len(mc_args.multilinears[i]) = Pow2(mc_args.n_vars)

\* What new and from_multilinear return.
Constructed ==
  /\ mc_args.fn = "new" =>
       /\ ValidArguments =>
            /\ mc_result.err = "Ok"
            /\ mc_result.value.n_vars = mc_args.n_vars
            /\ mc_result.value.composition = mc_args.composition
            /\ mc_result.value.multilinears = mc_args.multilinears
       /\ ~ValidArguments => mc_result.err = "MultilinearCompositeValidation"
  /\ mc_args.fn = "from_multilinear" =>
       /\ mc_result.err = "Ok"
       /\ mc_result.value.composition = Identity
       /\ mc_result.value.multilinears = <<mc_args.poly>>

\* The statement C27 as the specification has it: every composite returned
\* by new, from_multilinear or evaluate_partial_low has as many multilinears
\* as its composition has variables, each of n_vars() variables; new returns
\* MultilinearCompositeValidation when one of the two conditions fails; and
\* the composite evaluate_partial_low returns for a query of length k has
\* the n_vars() of the composite it was called on less k, and its
\* composition.
C27_Original ==
  mc_args # <<>> =>
    /\ McReturned => WellFormed(mc_result.value)
    /\ Constructed
    /\ (mc_args.fn = "evaluate_partial_low" /\ McReturned) =>
         /\ mc_result.value.n_vars = mc_args.self.n_vars - Len(mc_args.query)
         /\ mc_result.value.composition = mc_args.self.composition

\* C27: what holds of the code: the composites returned are well formed and
\* new validates its arguments, as stated; evaluate_partial_low with a query
\* of length k no longer than n_vars() returns the composition with n_vars()
\* less k; with a longer query it returns an error when the composite has a
\* multilinear, and when it has none the subtraction n_vars - k underflows:
\* a panic with overflow checks, and without them a composite whose n_vars()
\* has wrapped around.
C27_Composites ==
  mc_args # <<>> =>
    /\ McReturned => WellFormed(mc_result.value)
    /\ Constructed
    /\ mc_args.fn = "evaluate_partial_low" =>
         LET k    == Len(mc_args.query)
             self == mc_args.self
         IN  IF k <= self.n_vars
             THEN /\ mc_result.err = "Ok"
                  /\ mc_result.value.n_vars = self.n_vars - k
                  /\ mc_result.value.composition = self.composition
             ELSE IF self.multilinears # <<>>
             THEN mc_result.err = "IncorrectQuerySize"
             ELSE IF mc_args.overflow_checks
             THEN mc_result.err = "panic"
             ELSE /\ mc_result.err = "Ok"
                  /\ mc_result.value.n_vars = Pow2(UsizeBits) + self.n_vars - k
                  /\ mc_result.value.composition = self.composition

\* A composite of the product of two multilinears of two variables each was
\* evaluated at a query of one scalar other than 0 and 1.
C27_Witness ==
  /\ mc_args # <<>>
  /\ mc_args.fn = "evaluate_partial_low"
  /\ mc_args.self.composition = ProductOfTwo
  /\ mc_args.self.n_vars = 2
  /\ mc_args.query \in {<<2>>, <<3>>}
  /\ McReturned
  /\ mc_result.value.n_vars = 1
  /\ Len(mc_result.value.multilinears) = 2
  /\ mc_result.value.multilinears[1] # mc_result.value.multilinears[2]

\* new was refused multilinears of different numbers of variables.
C27_Witness_Validation ==
  /\ mc_args # <<>>
  /\ mc_args.fn = "new"
  /\ mc_args.composition = ProductOfTwo
  /\ Len(mc_args.multilinears) = 2
  /\ Len(mc_args.multilinears[1]) = Pow2(mc_args.n_vars)
  /\ Len(mc_args.multilinears[2]) # Pow2(mc_args.n_vars)
  /\ mc_result.err = "MultilinearCompositeValidation"

\* A composite of no multilinears and no variables was evaluated at a query
\* of one scalar, without overflow checks.
C27_Witness_Underflow ==
  /\ mc_args # <<>>
  /\ mc_args.fn = "evaluate_partial_low"
  /\ mc_args.self = [composition |-> ConstantOne, n_vars |-> 0, multilinears |-> <<>>]
  /\ Len(mc_args.query) = 1
  /\ ~mc_args.overflow_checks
  /\ McReturned
  /\ mc_result.value.n_vars = Pow2(UsizeBits) - 1
=============================================================================
